---- MODULE Spec2Model ----
(***************************************************************************)
(* CTestLens (src/src/extension.ts, the module that starts at line 152).   *)
(*                                                                         *)
(* Several specifications over one set of variables:                       *)
(*   SpecMatch   - matchesPattern, the basename wildcard matcher           *)
(*   SpecRun     - the Run profile handler, spawnAndReport, cancellation   *)
(*                 (FairSpecRun: with the event loop's fairness)           *)
(*   Spec        - readConfig and the discovery pass, one pass at a time   *)
(*                 (FairSpec: with the startup pass bound to happen)       *)
(*   SpecOverlap - the startup pass and a rediscover pass together         *)
(*   SpecMap     - mapToSourceUri, the choice of a source file             *)
(*   SpecInit    - initDefaultConfigIfMissing                              *)
(*   SpecResolve - resolveRootPath on one entry                            *)
(*   SpecTail    - the data and close handlers, the message of a failure   *)
(*   SpecRequest - a request of the Run or the Debug profile, discovery    *)
(*                 going on beside it                                      *)
(* Strings that the code inspects character by character (paths, patterns) *)
(* are sequences of one-character strings.                                 *)
(***************************************************************************)
EXTENDS Integers, Sequences, FiniteSets, TLC

VARIABLES
    \* --- SpecMatch: one call of matchesPattern ---
    mPath,      \* the filePath argument
    mPattern,   \* the pattern argument
    mResult     \* "unset" before the call, then "true" / "false" / "throws"

matchVars == <<mPath, mPattern, mResult>>

VARIABLES
    \* --- SpecRun: one run request of the Run profile ---
    rPc,        \* position of the run handler: "loop", "await", "ended", ("off")
    rIdx,       \* index in `leaves` of the leaf the loop is at
    rBin,       \* the leaves binaryByTestId holds a path for
    rToken,     \* token.isCancellationRequested
    rListeners, \* leaves whose onCancellationRequested listener is registered, in order
    rChild,     \* per leaf: the child process spawnAndReport spawned for it
    rPromise,   \* per leaf: the value spawnAndReport's promise settled to
    rTimers,    \* pending setTimeout callbacks of killTree
    rClock,     \* milliseconds since cancellation was requested
    rSignals,   \* every process.kill call made, in order
    rCalls,     \* the calls on the TestRun, in order (appendOutput left out)
    rCancelAt   \* the leaf in flight when cancellation was requested (0: none)

runVars == <<rPc, rIdx, rBin, rToken, rListeners, rChild, rPromise, rTimers,
             rClock, rSignals, rCalls, rCancelAt>>

VARIABLES
    \* --- Spec: readConfig and the discovery pass ---
    dFolder,    \* whether vscode.workspace.workspaceFolders[0] exists
    dPc,        \* per pass, the position of discover(): "idle", "readConfig", "root", "isDir",
                \* "walkFiles", "file", "isExecutable", "mapToSourceUri",
                \* "done" (returned), "thrown" (rejected), ("off")
    dRead,      \* per pass: the configuration file as readConfig found it
    dCfg,       \* per pass, cfg: what readConfig returned
    dLoc,       \* per pass: the locals of discover()
    dTree,      \* the nodes under controller.items
    dBin,       \* binaryByTestId
    dSrc,       \* sourceByBaseName
    dStartTree, \* per pass: the tree at the moment the pass was started
    dScanned,   \* per pass: the indices of the roots the pass has walked
    dCreated,   \* per pass: the nodes the pass has created
    dFile,      \* .vscode/ctestlens.jsonc, where a specification follows it
    dPrev,      \* per pass: what readConfig returned to the pass before, if
                \* that pass ran to its end
    dSrcBy,     \* for each key of sourceByBaseName, the pass that wrote it
    dSrcReads   \* per pass: the passes whose cache entries it was handed

discVars == <<dFolder, dPc, dRead, dCfg, dLoc, dTree, dBin, dSrc, dStartTree,
              dScanned, dCreated, dFile, dPrev, dSrcBy, dSrcReads>>

VARIABLES
    \* --- SpecMap: one call of mapToSourceUri ---
    sRelDir,    \* the relDirUnderRoot argument
    sMatches,   \* what findFiles returns, in its order
    sDone,      \* whether the call has returned
    sOut        \* what it returned and the cache afterwards

mapVars == <<sRelDir, sMatches, sDone, sOut>>

VARIABLES
    \* --- SpecInit: calls of initDefaultConfigIfMissing ---
    iPc,        \* per call: "idle", "stat", "createDirectory", "writeFile", "done"
    iWrites     \* for every writeFile made, what the file was just before

initVars == <<iPc, iWrites>>

VARIABLES
    \* --- SpecRequest: one request of the Run or the Debug profile ---
    qPc,        \* position of the handler: "idle", "loop", "await", "ended", ("off")
    qKind,      \* the profile the request is for: "run" or "debug"
    qInclude,   \* request.include: the selected items, in order
    qLeaves,    \* `leaves`: the items the handler flattened the selection to
    qIdx,       \* index in `leaves` of the item the loop is at
    qToken,     \* token.isCancellationRequested
    qCalls,     \* the calls on the TestRun, in order (appendOutput left out)
    qCancelAt   \* how many calls had been made when cancellation was requested
                \* (0: it was not)

reqVars == <<qPc, qKind, qInclude, qLeaves, qIdx, qToken, qCalls, qCancelAt>>

VARIABLES
    \* --- SpecResolve, SpecTail: one call of a function ---
    fArgs,      \* its arguments
    fDone,      \* whether it has returned
    fOut        \* what it returned

fnVars == <<fArgs, fDone, fOut>>

vars == <<matchVars, runVars, discVars, mapVars, initVars, reqVars, fnVars>>

-----------------------------------------------------------------------------
(* Bounds *)

MaxPatLen == 3
MaxPathLen == 3
\* Leaves of one run request.
NumLeaves == 2

\* The values the variables of a specification hold while another one runs.
RunOff ==
    /\ rPc = "off" /\ rIdx = 0 /\ rBin = {} /\ rToken = FALSE /\ rListeners = <<>>
    /\ rChild = <<>> /\ rPromise = <<>> /\ rTimers = {} /\ rClock = 0
    /\ rSignals = <<>> /\ rCalls = <<>> /\ rCancelAt = 0

DiscOff ==
    /\ dFolder = FALSE /\ dPc = <<>> /\ dRead = <<>> /\ dCfg = <<>> /\ dLoc = <<>>
    /\ dTree = {} /\ dBin = {} /\ dSrc = {} /\ dStartTree = <<>> /\ dScanned = <<>>
    /\ dCreated = <<>> /\ dFile = <<>> /\ dPrev = <<>> /\ dSrcBy = {}
    /\ dSrcReads = <<>>

MapOff == sRelDir = <<>> /\ sMatches = <<>> /\ sDone = FALSE /\ sOut = <<>>

InitOff == iPc = <<>> /\ iWrites = {}

ReqOff ==
    /\ qPc = "off" /\ qKind = "" /\ qInclude = <<>> /\ qLeaves = <<>> /\ qIdx = 0
    /\ qToken = FALSE /\ qCalls = <<>> /\ qCancelAt = 0

FnOff == fArgs = <<>> /\ fDone = FALSE /\ fOut = <<>>

-----------------------------------------------------------------------------
(* Character strings *)

\* All sequences over alphabet S of length 0..n.
StringsUpTo(S, n) == UNION {[1..k -> S] : k \in 0..n}

\* Characters patterns are drawn from: a literal, the wildcard, two regular
\* expression metacharacters (one the code escapes, one it does not) and the
\* path separator.
PatternChars == {"a", "*", "?", ".", "/"}

\* Characters file paths are drawn from (a file name may hold any character
\* but the separator, a line feed included).
PathChars == {"a", ".", "?", "/", "\n"}

RECURSIVE LastIndexOf(_, _, _)
\* The greatest index <= i at which s holds character c, or 0.
LastIndexOf(s, c, i) ==
    IF i = 0 THEN 0
    ELSE IF s[i] = c THEN i
    ELSE LastIndexOf(s, c, i - 1)

RECURSIVE StripTrailingSep(_)
\* s without its trailing separators.
StripTrailingSep(s) ==
    IF Len(s) > 0 /\ s[Len(s)] = "/" THEN StripTrailingSep(SubSeq(s, 1, Len(s) - 1))
    ELSE s

\* path.basename (posix): trailing separators are dropped, then the part after
\* the last separator is returned.
Basename(p) ==
    LET q == StripTrailingSep(p)
        k == LastIndexOf(q, "/", Len(q))
    IN  SubSeq(q, k + 1, Len(q))

\* pattern.split("/").pop(): the part after the last separator.
LastSegment(p) ==
    LET k == LastIndexOf(p, "/", Len(p))
    IN  SubSeq(p, k + 1, Len(p))

-----------------------------------------------------------------------------
(* matchesPattern: the regular expression it builds and RegExp's reading of it *)

\* The characters .replace(/[.+^${}()|[\]\\]/g, "\\$&") puts a backslash before.
EscapedChars == {".", "+", "^", "$", "{", "}", "(", ")", "|", "[", "]", "\\"}

RECURSIVE EscapeRegex(_)
EscapeRegex(s) ==
    IF s = <<>> THEN <<>>
    ELSE (IF Head(s) \in EscapedChars THEN <<"\\", Head(s)>> ELSE <<Head(s)>>)
         \o EscapeRegex(Tail(s))

RECURSIVE StarToDotStar(_)
\* .replace(/\*/g, ".*")
StarToDotStar(s) ==
    IF s = <<>> THEN <<>>
    ELSE (IF Head(s) = "*" THEN <<".", "*">> ELSE <<Head(s)>>)
         \o StarToDotStar(Tail(s))

\* reSrc of matchesPattern.
RegexSource(namePattern) ==
    <<"^">> \o StarToDotStar(EscapeRegex(namePattern)) \o <<"$">>

\* Characters "." does not match (no s flag).
LineTerminators == {"\n", "\r"}

SyntaxError == [ok |-> FALSE, terms |-> <<>>]

RECURSIVE ParseRegex(_, _, _, _)
\* new RegExp(src): the terms of the pattern, or a SyntaxError. `last` says what
\* the previous token was: "none" (start, or an assertion: nothing to repeat),
\* "atom" (may take a quantifier), "quant" (may take the lazy mark "?") or
\* "lazy" (nothing to repeat).
ParseRegex(src, i, terms, last) ==
    IF i > Len(src) THEN [ok |-> TRUE, terms |-> terms]
    ELSE LET c == src[i] IN
      CASE c = "^" ->
             ParseRegex(src, i + 1, Append(terms, [kind |-> "bol", ch |-> "", q |-> "one"]), "none")
        [] c = "$" ->
             ParseRegex(src, i + 1, Append(terms, [kind |-> "eol", ch |-> "", q |-> "one"]), "none")
        [] c = "\\" ->
             IF i + 1 > Len(src) THEN SyntaxError
             ELSE ParseRegex(src, i + 2,
                             Append(terms, [kind |-> "char", ch |-> src[i + 1], q |-> "one"]), "atom")
        [] c = "." ->
             ParseRegex(src, i + 1, Append(terms, [kind |-> "dot", ch |-> "", q |-> "one"]), "atom")
        [] c \in {"*", "?"} ->
             IF last = "atom"
             THEN ParseRegex(src, i + 1,
                             [terms EXCEPT ![Len(terms)].q = IF c = "*" THEN "star" ELSE "opt"],
                             "quant")
             ELSE IF last = "quant" /\ c = "?"
             THEN ParseRegex(src, i + 1, terms, "lazy")
             ELSE SyntaxError
        [] OTHER ->
             ParseRegex(src, i + 1, Append(terms, [kind |-> "char", ch |-> c, q |-> "one"]), "atom")

AtomMatches(term, c) ==
    \/ term.kind = "char" /\ c = term.ch
    \/ term.kind = "dot" /\ c \notin LineTerminators

RECURSIVE MatchFrom(_, _, _, _)
\* Whether terms k.. match s from position j on (to any end position).
MatchFrom(terms, k, s, j) ==
    IF k > Len(terms) THEN TRUE
    ELSE LET t == terms[k] IN
      CASE t.kind = "bol" -> j = 1 /\ MatchFrom(terms, k + 1, s, j)
        [] t.kind = "eol" -> j = Len(s) + 1 /\ MatchFrom(terms, k + 1, s, j)
        [] OTHER ->
             LET here == j <= Len(s) /\ AtomMatches(t, s[j]) IN
             CASE t.q = "one"  -> here /\ MatchFrom(terms, k + 1, s, j + 1)
               [] t.q = "opt"  -> \/ MatchFrom(terms, k + 1, s, j)
                                  \/ here /\ MatchFrom(terms, k + 1, s, j + 1)
               [] t.q = "star" -> \/ MatchFrom(terms, k + 1, s, j)
                                  \/ here /\ MatchFrom(terms, k, s, j + 1)

\* re.test(s): a match starting at some position.
RegexTest(terms, s) == \E j \in 1..(Len(s) + 1) : MatchFrom(terms, 1, s, j)

\* matchesPattern(filePath, pattern): "true", "false", or "throws" when the
\* RegExp constructor rejects the source it was given.
matchesPattern(filePath, pattern) ==
    LET base == Basename(filePath)
        namePattern == IF \E i \in 1..Len(pattern) : pattern[i] = "/"
                       THEN LastSegment(pattern) ELSE pattern
        re == ParseRegex(RegexSource(namePattern), 1, <<>>, "none")
    IN  IF ~re.ok THEN "throws"
        ELSE IF RegexTest(re.terms, base) THEN "true" ELSE "false"

-----------------------------------------------------------------------------
(* SpecMatch: matchesPattern applied to every bounded path and pattern *)

\* File paths as walkFiles returns them: path.join(dir, ent.name), never empty
\* and never ending in a separator.  Patterns as readConfig lets them through:
\* non-empty.
MatchPaths == {p \in StringsUpTo(PathChars, MaxPathLen) : p # <<>> /\ p[Len(p)] # "/"}
MatchPatterns == StringsUpTo(PatternChars, MaxPatLen) \ {<<>>}

MatchOff == mPath = <<>> /\ mPattern = <<>> /\ mResult = "off"

InitMatch ==
    /\ mPath \in MatchPaths
    /\ mPattern \in MatchPatterns
    /\ mResult = "unset"
    /\ RunOff
    /\ DiscOff
    /\ MapOff
    /\ InitOff
    /\ ReqOff
    /\ FnOff

CallMatchesPattern ==
    /\ mResult = "unset"
    /\ mResult' = matchesPattern(mPath, mPattern)
    /\ UNCHANGED <<mPath, mPattern, runVars, discVars, mapVars, initVars, reqVars, fnVars>>

NextMatch == CallMatchesPattern

SpecMatch == InitMatch /\ [][NextMatch]_vars

RECURSIVE GlobMatch(_, _)
\* The wildcard language of the specification: "*" stands for any string,
\* every other character for itself; the whole name must be used up.
GlobMatch(name, pat) ==
    IF pat = <<>> THEN name = <<>>
    ELSE IF Head(pat) = "*"
    THEN \/ GlobMatch(name, Tail(pat))
         \/ name # <<>> /\ GlobMatch(Tail(name), pat)
    ELSE name # <<>> /\ Head(name) = Head(pat) /\ GlobMatch(Tail(name), Tail(pat))

\* C10: matchesPattern is true exactly when the basename of the file, as a
\* whole, is in the wildcard language of the last segment of the pattern.
C10_MatchIsBasenameGlob ==
    mResult # "unset" =>
        mResult = (IF GlobMatch(Basename(mPath), LastSegment(mPattern)) THEN "true" ELSE "false")

-----------------------------------------------------------------------------
(* spawnAndReport and the Run profile handler *)

Leaves == 1..NumLeaves

TermDelayMs == 300
KillDelayMs == 1500

\* spawn's options: detached makes the child the leader of a new process group.
SpawnOptions == [detached |-> TRUE, stdio |-> <<"ignore", "pipe", "pipe">>]

\* The pid the operating system gives the child of leaf l (0: child.pid undefined).
PidOf(l) == 100 + l
\* The process group of the extension host itself.
HostPgid == 1

\* How a launch can fail (the 'error' event of the child).
LaunchErrors == {"ENOENT", "EACCES"}
\* How a running child can end on its own: exit codes, or a fatal signal.
ExitCodes == {"0", "1"}
OwnSignals == {"SIGSEGV"}
\* The exit code the 'close' event carries after a failed launch (a negative errno).
LaunchFailCode == "-2"

NoChild ==
    [state |-> "none", pid |-> 0, pgid |-> 0, code |-> "null", signal |-> "",
     err |-> "", errorEmitted |-> FALSE, closeEmitted |-> FALSE]

\* A child after spawn(bin, [], options) succeeded.
SpawnedChild(l, options) ==
    [NoChild EXCEPT !.state = "running", !.pid = PidOf(l),
                    !.pgid = IF options.detached THEN PidOf(l) ELSE HostPgid]

\* A child whose launch failed: no pid, an 'error' event to come.
FailedChild(e) == [NoChild EXCEPT !.state = "failed", !.err = e]

\* The values of spawnAndReport's promise.
Pending ==
    [kind |-> "pending", type |-> "", code |-> "null", signal |-> "", err |-> "",
     stderrTail |-> FALSE, stdoutTail |-> FALSE]
PassResult == [Pending EXCEPT !.kind = "pass"]
ErrorResult(e) == [Pending EXCEPT !.kind = "error", !.type = "launchError", !.err = e]
SignalResult(sig) == [Pending EXCEPT !.kind = "fail", !.type = "signal", !.signal = sig]

\* The message of a nonzero exit: the code, and a tail section for each stream
\* that captured anything (stderr ? ... : "").
ExitResult(code, stderr, stdout) ==
    [Pending EXCEPT !.kind = "fail", !.type = "exit", !.code = code,
                    !.stderrTail = stderr, !.stdoutTail = stdout]

\* A close handler that looks at the exit code only.
CloseResultCodeOnly(code, signal, stderr, stdout) ==
    IF code = "0" THEN PassResult ELSE ExitResult(code, stderr, stdout)

\* What the 'close' handler resolves with.
CloseResult(code, signal, stderr, stdout) ==
    IF signal # "" THEN SignalResult(signal)
    ELSE IF code = "0" THEN PassResult
    ELSE ExitResult(code, stderr, stdout)

\* resolve(v) on a promise holding p: only the first call settles it.
Resolve(p, v) == IF p.kind = "pending" THEN v ELSE p

\* A result chain whose second test is not chained to the first.
ReportCallsNoElse(l, result) ==
    (IF result.kind = "pass" THEN <<[call |-> "passed", leaf |-> l, msg |-> result]>> ELSE <<>>)
    \o (IF result.kind = "fail" THEN <<[call |-> "failed", leaf |-> l, msg |-> result]>>
        ELSE <<[call |-> "errored", leaf |-> l, msg |-> result]>>)

\* The TestRun calls the handler makes for a settled result.
ReportCalls(l, result) ==
    IF result.kind = "pass" THEN <<[call |-> "passed", leaf |-> l, msg |-> result]>>
    ELSE IF result.kind = "fail" THEN <<[call |-> "failed", leaf |-> l, msg |-> result]>>
    ELSE <<[call |-> "errored", leaf |-> l, msg |-> result]>>

MissingBinary == [Pending EXCEPT !.kind = "error", !.type = "missingBinary"]

\* The handler is between two turns of the event loop: it awaits an unsettled
\* promise, or it has returned. Only then does an event callback run.
AtRest ==
    \/ rPc = "ended"
    \/ rPc = "await" /\ rPromise[rIdx].kind = "pending"

\* process.kill(target, sig): the running children that receive the signal. A
\* negative target names a process group, a positive one a single process.
Receivers(target) ==
    {l \in Leaves : /\ rChild[l].state = "running"
                    /\ IF target < 0 THEN rChild[l].pgid = -target
                                     ELSE rChild[l].pid = target}

\* The record of one process.kill call.
SignalCall(target, sig) ==
    [target |-> target, sig |-> sig, at |-> rClock, alive |-> Receivers(target) # {}]

\* What a signal does to a child that receives it: SIGKILL always ends it, the
\* others end it or are caught or ignored.
Reactions(sig) == IF sig = "SIGKILL" THEN {"die"} ELSE {"die", "ignore"}

AfterSignal(children, target, sig, reaction) ==
    [l \in Leaves |->
        IF l \in Receivers(target) /\ reaction = "die"
        THEN [children[l] EXCEPT !.state = "exited", !.signal = sig]
        ELSE children[l]]

\* A killTree that signals the child alone.
KillTargetChildOnly(l) == rChild[l].pid

\* killTree: the target of its process.kill calls, and the timers it sets.
KillTarget(l) == -rChild[l].pid

\* A killTree that stops escalating at SIGTERM.
KillTreeTimersNoKill(l, n) ==
    {[leaf |-> l, sig |-> "SIGTERM", due |-> TermDelayMs, seq |-> 2 * n]}

KillTreeTimers(l, n) ==
    {[leaf |-> l, sig |-> "SIGTERM", due |-> TermDelayMs, seq |-> 2 * n],
     [leaf |-> l, sig |-> "SIGKILL", due |-> KillDelayMs, seq |-> 2 * n + 1]}

\* The listeners whose killTree goes past `if (!child.pid) return`.
RECURSIVE WithPid(_)
WithPid(ls) ==
    IF ls = <<>> THEN <<>>
    ELSE (IF rChild[Head(ls)].pid # 0 THEN <<Head(ls)>> ELSE <<>>) \o WithPid(Tail(ls))

InitRun ==
    /\ rPc = "loop"
    /\ rIdx = 1
    /\ rBin \in SUBSET Leaves
    /\ rToken = FALSE
    /\ rListeners = <<>>
    /\ rChild = [l \in Leaves |-> NoChild]
    /\ rPromise = [l \in Leaves |-> Pending]
    /\ rTimers = {}
    /\ rClock = 0
    /\ rSignals = <<>>
    /\ rCalls = <<>>
    /\ rCancelAt = 0
    /\ MatchOff
    /\ DiscOff
    /\ MapOff
    /\ InitOff
    /\ ReqOff
    /\ FnOff

\* for (const test of leaves): the loop is over, or cancellation is seen: run.end().
RunEnd ==
    /\ rPc = "loop"
    /\ rIdx > NumLeaves \/ rToken
    /\ rCalls' = Append(rCalls, [call |-> "end", leaf |-> 0, msg |-> Pending])
    /\ rPc' = "ended"
    /\ UNCHANGED <<rIdx, rBin, rToken, rListeners, rChild, rPromise, rTimers,
                   rClock, rSignals, rCancelAt, matchVars, discVars, mapVars, initVars,
                   reqVars, fnVars>>

\* The loop body when binaryByTestId has no path for the leaf.
RunMissingBinary ==
    /\ rPc = "loop"
    /\ rIdx <= NumLeaves /\ ~rToken
    /\ rIdx \notin rBin
    /\ rCalls' = Append(rCalls, [call |-> "errored", leaf |-> rIdx, msg |-> MissingBinary])
    /\ rIdx' = rIdx + 1
    /\ UNCHANGED <<rPc, rBin, rToken, rListeners, rChild, rPromise, rTimers,
                   rClock, rSignals, rCancelAt, matchVars, discVars, mapVars, initVars,
                   reqVars, fnVars>>

\* The loop body up to `await spawnAndReport(...)`: enqueued, started, spawn,
\* the listener and the event handlers registered.
RunSpawn ==
    /\ rPc = "loop"
    /\ rIdx <= NumLeaves /\ ~rToken
    /\ rIdx \in rBin
    /\ \E c \in {SpawnedChild(rIdx, SpawnOptions)} \cup {FailedChild(e) : e \in LaunchErrors} :
           rChild' = [rChild EXCEPT ![rIdx] = c]
    /\ rCalls' = rCalls \o <<[call |-> "enqueued", leaf |-> rIdx, msg |-> Pending],
                             [call |-> "started", leaf |-> rIdx, msg |-> Pending]>>
    /\ rListeners' = Append(rListeners, rIdx)
    /\ rPc' = "await"
    /\ UNCHANGED <<rIdx, rBin, rToken, rPromise, rTimers, rClock, rSignals,
                   rCancelAt, matchVars, discVars, mapVars, initVars,
                   reqVars, fnVars>>

\* The continuation of the await: one of run.passed / failed / errored.
RunReport ==
    /\ rPc = "await"
    /\ rPromise[rIdx].kind # "pending"
    /\ rCalls' = rCalls \o ReportCalls(rIdx, rPromise[rIdx])
    /\ rIdx' = rIdx + 1
    /\ rPc' = "loop"
    /\ UNCHANGED <<rBin, rToken, rListeners, rChild, rPromise, rTimers, rClock,
                   rSignals, rCancelAt, matchVars, discVars, mapVars, initVars,
                   reqVars, fnVars>>

\* The child ends on its own.
ChildExits(l) ==
    /\ rChild[l].state = "running"
    /\ \/ \E c \in ExitCodes :
             rChild' = [rChild EXCEPT ![l].state = "exited", ![l].code = c]
       \/ \E sig \in OwnSignals :
             rChild' = [rChild EXCEPT ![l].state = "exited", ![l].signal = sig]
    /\ UNCHANGED <<rPc, rIdx, rBin, rToken, rListeners, rPromise, rTimers, rClock,
                   rSignals, rCalls, rCancelAt, matchVars, discVars, mapVars, initVars,
                   reqVars, fnVars>>

\* child.stdout.on("data") / child.stderr.on("data"): the handlers only append
\* to the strings stdout and stderr, which nothing but the 'close' handler
\* reads, so what they captured is drawn when 'close' runs: for each stream,
\* whether any chunk arrived before it.
Captured == [stdout : BOOLEAN, stderr : BOOLEAN]

\* child.on("error")
OnError(l) ==
    /\ AtRest
    /\ rChild[l].state = "failed"
    /\ ~rChild[l].errorEmitted
    /\ rChild' = [rChild EXCEPT ![l].errorEmitted = TRUE]
    /\ rPromise' = [rPromise EXCEPT ![l] = Resolve(@, ErrorResult(rChild[l].err))]
    /\ UNCHANGED <<rPc, rIdx, rBin, rToken, rListeners, rTimers, rClock, rSignals,
                   rCalls, rCancelAt, matchVars, discVars, mapVars, initVars,
                   reqVars, fnVars>>

\* child.on("close"): after the child has exited, or after the 'error' event of
\* a failed launch.
OnClose(l) ==
    /\ AtRest
    /\ ~rChild[l].closeEmitted
    /\ \/ rChild[l].state = "exited"
       \/ rChild[l].state = "failed" /\ rChild[l].errorEmitted
    /\ \E got \in (IF rChild[l].state = "failed" THEN {[stdout |-> FALSE, stderr |-> FALSE]}
                                                  ELSE Captured) :
        LET code == IF rChild[l].state = "failed" THEN LaunchFailCode ELSE rChild[l].code
        IN  /\ rPromise' = [rPromise EXCEPT ![l] =
                   Resolve(@, CloseResult(code, rChild[l].signal, got.stderr, got.stdout))]
            /\ rChild' = [rChild EXCEPT ![l].closeEmitted = TRUE]
    /\ UNCHANGED <<rPc, rIdx, rBin, rToken, rListeners, rTimers, rClock, rSignals,
                   rCalls, rCancelAt, matchVars, discVars, mapVars, initVars,
                   reqVars, fnVars>>

\* token.onCancellationRequested: every registered listener runs killTree, which
\* sends SIGINT and sets its two timers.
Cancel ==
    /\ rPc = "await" /\ rPromise[rIdx].kind = "pending"
    /\ ~rToken
    /\ rToken' = TRUE
    /\ rCancelAt' = rIdx
    /\ LET ls == WithPid(rListeners) IN
       /\ rSignals' = rSignals \o [k \in 1..Len(ls) |-> SignalCall(KillTarget(ls[k]), "SIGINT")]
       /\ rTimers' = UNION {KillTreeTimers(ls[k], k) : k \in 1..Len(ls)}
       /\ \E reaction \in Reactions("SIGINT") :
            rChild' = [l \in Leaves |->
                IF \E k \in 1..Len(ls) : l \in Receivers(KillTarget(ls[k])) /\ reaction = "die"
                THEN [rChild[l] EXCEPT !.state = "exited", !.signal = "SIGINT"]
                ELSE rChild[l]]
    /\ UNCHANGED <<rPc, rIdx, rBin, rListeners, rPromise, rClock, rCalls, matchVars,
                   discVars, mapVars, initVars, reqVars, fnVars>>

\* Time passes, up to the next pending timer.
Advance ==
    /\ \E t \in rTimers : t.due > rClock
    /\ rClock' = CHOOSE d \in {t.due : t \in rTimers} :
                    d > rClock /\ \A t \in rTimers : t.due > rClock => d <= t.due
    /\ UNCHANGED <<rPc, rIdx, rBin, rToken, rListeners, rChild, rPromise, rTimers,
                   rSignals, rCalls, rCancelAt, matchVars, discVars, mapVars, initVars,
                   reqVars, fnVars>>

\* The timer that is due first runs: process.kill(-child.pid, sig).
FireTimer ==
    /\ AtRest
    /\ \E t \in rTimers :
        /\ t.due <= rClock
        /\ \A u \in rTimers : u.due > t.due \/ (u.due = t.due /\ u.seq >= t.seq)
        /\ rTimers' = rTimers \ {t}
        /\ rSignals' = Append(rSignals, SignalCall(KillTarget(t.leaf), t.sig))
        /\ \E reaction \in Reactions(t.sig) :
             rChild' = AfterSignal(rChild, KillTarget(t.leaf), t.sig, reaction)
    /\ UNCHANGED <<rPc, rIdx, rBin, rToken, rListeners, rPromise, rClock, rCalls,
                   rCancelAt, matchVars, discVars, mapVars, initVars,
                   reqVars, fnVars>>

NextRun ==
    \/ RunEnd
    \/ RunMissingBinary
    \/ RunSpawn
    \/ RunReport
    \/ \E l \in Leaves : ChildExits(l)
    \/ \E l \in Leaves : OnError(l)
    \/ \E l \in Leaves : OnClose(l)
    \/ Cancel
    \/ Advance
    \/ FireTimer

SpecRun == InitRun /\ [][NextRun]_vars

\* The event loop runs every callback that is ready and time passes; nothing
\* makes the user cancel, makes the child exit or makes it write.
FairSpecRun ==
    /\ SpecRun
    /\ WF_vars(RunEnd) /\ WF_vars(RunMissingBinary) /\ WF_vars(RunSpawn) /\ WF_vars(RunReport)
    /\ WF_vars(\E l \in Leaves : OnError(l))
    /\ WF_vars(\E l \in Leaves : OnClose(l))
    /\ WF_vars(Advance) /\ WF_vars(FireTimer)

-----------------------------------------------------------------------------
(* Claims about the execution engine *)

ResultCalls == {"passed", "failed", "errored"}

\* The results reported for leaf l, in order.
ResultsOf(l) ==
    SelectSeq(rCalls, LAMBDA c : c.leaf = l /\ c.call \in ResultCalls)

Stage(sig) == CASE sig = "SIGINT" -> 1 [] sig = "SIGTERM" -> 2 [] sig = "SIGKILL" -> 3

\* The signals of stage n that reached a living group led by leaf l's child.
Delivered(l, sig) ==
    \E i \in 1..Len(rSignals) :
        /\ rSignals[i].target = -PidOf(l) /\ rSignals[i].sig = sig /\ rSignals[i].alive

\* C4: every signal of a cancellation goes to a process group whose leader is
\* a child the engine spawned (a negative target, the child being the leader of
\* its own group), and per group the signals are issued in the order SIGINT,
\* SIGTERM, SIGKILL.
C4_SignalsToGroupInOrder ==
    /\ \A i \in 1..Len(rSignals) :
          /\ rSignals[i].target < 0
          /\ \E l \in Leaves : /\ rChild[l].pid = -rSignals[i].target
                                /\ rChild[l].pgid = rChild[l].pid
    /\ \A i, j \in 1..Len(rSignals) :
          (i < j /\ rSignals[i].target = rSignals[j].target)
              => Stage(rSignals[i].sig) < Stage(rSignals[j].sig)

\* C4 witness: a group has received all three signals.
C4_Witness ==
    \E l \in Leaves :
        Delivered(l, "SIGINT") /\ Delivered(l, "SIGTERM") /\ Delivered(l, "SIGKILL")

\* C5: SIGTERM is sent only to a group still alive 300 ms after the interrupt,
\* SIGKILL only to a group still alive at 1500 ms, and no signal is sent to the
\* group id of a group that has exited.
C5_SignalsOnlyWhileAlive ==
    \A i \in 1..Len(rSignals) :
        /\ rSignals[i].alive
        /\ rSignals[i].sig = "SIGTERM" => rSignals[i].at >= TermDelayMs
        /\ rSignals[i].sig = "SIGKILL" => rSignals[i].at >= KillDelayMs

\* C6: whenever cancellation is requested while the child of a leaf runs, a
\* result is eventually reported for that leaf.
C6_CancelledRunReports ==
    \A l \in Leaves : (rCancelAt = l) ~> (ResultsOf(l) # <<>>)

\* C6 witness: the child ignored SIGINT and SIGTERM, was killed, and the result
\* of its leaf was reported.
C6_Witness ==
    \E l \in Leaves :
        /\ rCancelAt = l
        /\ Delivered(l, "SIGKILL")
        /\ ResultsOf(l) # <<>>

\* C7: the result of an execution during which cancellation was requested is
\* failed or errored, never passed.
C7_CancelledNeverPassed ==
    \A l \in Leaves :
        rCancelAt = l =>
            \A k \in 1..Len(ResultsOf(l)) : ResultsOf(l)[k].call \in {"failed", "errored"}

\* The leaves run.started was called for.
Started == {rCalls[k].leaf : k \in {n \in 1..Len(rCalls) : rCalls[n].call = "started"}}

\* C8: a leaf never has two results, and a started leaf the handler has moved
\* past (or whose run has ended) has exactly one.
C8_ExactlyOneResult ==
    \A l \in Leaves :
        /\ Len(ResultsOf(l)) <= 1
        /\ (l \in Started /\ (rIdx > l \/ rPc = "ended")) => Len(ResultsOf(l)) = 1

\* C8 witness: both the 'error' and the 'close' handler of one child have run
\* (two calls of resolve), a second leaf was cancelled and closed, and each
\* has its one result.
C8_Witness ==
    \E l, m \in Leaves :
        /\ rChild[l].errorEmitted /\ rChild[l].closeEmitted
        /\ rCancelAt = m /\ rChild[m].closeEmitted
        /\ Len(ResultsOf(l)) = 1 /\ Len(ResultsOf(m)) = 1

\* C9: the reported result follows from how the child ended: a failed launch
\* gives errored with the launch error, death by a signal gives failed naming
\* the signal, exit code 0 gives passed, another exit code gives failed with
\* that code.
C9_ResultFollowsChildEnd ==
    \A l \in Leaves : \A k \in 1..Len(ResultsOf(l)) :
        LET r == ResultsOf(l)[k]
            c == rChild[l]
        IN  /\ c.state = "failed" =>
                r.call = "errored" /\ r.msg.type = "launchError" /\ r.msg.err = c.err
            /\ (c.state = "exited" /\ c.signal # "") =>
                r.call = "failed" /\ r.msg.type = "signal" /\ r.msg.signal = c.signal
            /\ (c.state = "exited" /\ c.signal = "" /\ c.code = "0") =>
                r.call = "passed"
            /\ (c.state = "exited" /\ c.signal = "" /\ c.code # "0") =>
                r.call = "failed" /\ r.msg.type = "exit" /\ r.msg.code = c.code
            /\ c.state # "running"

\* C9 witness: one run has reported a failed launch and a death by signal.
C9_Witness ==
    \E l, m \in Leaves :
        /\ rChild[l].state = "failed" /\ ResultsOf(l) # <<>>
        /\ rChild[m].state = "exited" /\ rChild[m].signal # "" /\ ResultsOf(m) # <<>>

-----------------------------------------------------------------------------
(* Paths (node:path, posix) *)

RECURSIVE FirstIndexOf(_, _, _)
\* The least index >= i at which s holds character c, or 0.
FirstIndexOf(s, c, i) ==
    IF i > Len(s) THEN 0
    ELSE IF s[i] = c THEN i
    ELSE FirstIndexOf(s, c, i + 1)

RECURSIVE Split(_, _)
\* s.split(c)
Split(s, c) ==
    LET k == FirstIndexOf(s, c, 1)
    IN  IF k = 0 THEN <<s>>
        ELSE <<SubSeq(s, 1, k - 1)>> \o Split(SubSeq(s, k + 1, Len(s)), c)

RECURSIVE JoinWith(_, _)
\* segs.join(c)
JoinWith(segs, c) ==
    IF segs = <<>> THEN <<>>
    ELSE IF Len(segs) = 1 THEN segs[1]
    ELSE segs[1] \o <<c>> \o JoinWith(Tail(segs), c)

\* .filter(Boolean) on a list of strings: the empty ones go.
FilterNonEmpty(segs) ==
    LET NonEmpty(x) == x # <<>>
    IN  SelectSeq(segs, NonEmpty)

RECURSIVE NormalizeSegs(_, _, _)
\* path's normalizeString: "" and "." segments go, ".." takes the segment
\* before it (and stays only where the path may climb above its start).
NormalizeSegs(segs, stack, allowAboveRoot) ==
    IF segs = <<>> THEN stack
    ELSE LET s == Head(segs)
         IN  IF s = <<>> \/ s = <<".">>
                 THEN NormalizeSegs(Tail(segs), stack, allowAboveRoot)
             ELSE IF s = <<".", ".">>
                 THEN IF stack # <<>> /\ stack[Len(stack)] # <<".", ".">>
                          THEN NormalizeSegs(Tail(segs), SubSeq(stack, 1, Len(stack) - 1),
                                             allowAboveRoot)
                      ELSE IF allowAboveRoot
                          THEN NormalizeSegs(Tail(segs), Append(stack, s), allowAboveRoot)
                      ELSE NormalizeSegs(Tail(segs), stack, allowAboveRoot)
             ELSE NormalizeSegs(Tail(segs), Append(stack, s), allowAboveRoot)

\* path.isAbsolute
isAbsolute(p) == Len(p) > 0 /\ p[1] = "/"

\* path.normalize
normalize(p) ==
    IF p = <<>> THEN <<".">>
    ELSE LET abs == isAbsolute(p)
             trailing == p[Len(p)] = "/"
             body == JoinWith(NormalizeSegs(Split(p, "/"), <<>>, ~abs), "/")
         IN  IF body = <<>>
                 THEN (IF abs THEN <<"/">> ELSE IF trailing THEN <<".", "/">> ELSE <<".">>)
             ELSE (IF abs THEN <<"/">> ELSE <<>>) \o body
                  \o (IF trailing THEN <<"/">> ELSE <<>>)

\* path.join of two arguments
join(a, b) ==
    LET joined == JoinWith(FilterNonEmpty(<<a, b>>), "/")
    IN  IF joined = <<>> THEN <<".">> ELSE normalize(joined)

RECURSIVE CommonPrefixLen(_, _)
\* The number of leading elements two sequences share.
CommonPrefixLen(a, b) ==
    IF a = <<>> \/ b = <<>> \/ Head(a) # Head(b) THEN 0
    ELSE 1 + CommonPrefixLen(Tail(a), Tail(b))

\* path.relative of two absolute paths
relative(from, to) ==
    LET f == NormalizeSegs(Split(from, "/"), <<>>, FALSE)
        t == NormalizeSegs(Split(to, "/"), <<>>, FALSE)
        k == CommonPrefixLen(f, t)
        ups == [x \in 1..(Len(f) - k) |-> <<".", ".">>]
    IN  JoinWith(ups \o SubSeq(t, k + 1, Len(t)), "/")

\* path.dirname
dirname(p) ==
    IF p = <<>> THEN <<".">>
    ELSE LET q == StripTrailingSep(p)
             k == LastIndexOf(q, "/", Len(q))
             d == StripTrailingSep(SubSeq(q, 1, k - 1))
         IN  IF q = <<>> THEN <<"/">>
             ELSE IF k = 0 THEN <<".">>
             ELSE IF d = <<>> THEN <<"/">>
             ELSE d

\* path.parse(base).name: base without its extension (a leading dot does not
\* start an extension, and ".." has none).
ParseName(base) ==
    LET k == LastIndexOf(base, ".", Len(base))
    IN  IF k <= 1 \/ base = <<".", ".">> THEN base
        ELSE SubSeq(base, 1, k - 1)

Digits == <<"0", "1", "2", "3", "4", "5", "6", "7", "8", "9">>

RECURSIVE NumToString(_)
\* `${i}` for a natural number
NumToString(n) ==
    IF n < 10 THEN <<Digits[n + 1]>>
    ELSE NumToString(n \div 10) \o <<Digits[(n % 10) + 1]>>

Whitespace == {" ", "\t", "\n"}

RECURSIVE TrimStart(_)
TrimStart(s) ==
    IF s # <<>> /\ s[1] \in Whitespace THEN TrimStart(Tail(s)) ELSE s

RECURSIVE TrimEnd(_)
TrimEnd(s) ==
    IF s # <<>> /\ s[Len(s)] \in Whitespace THEN TrimEnd(SubSeq(s, 1, Len(s) - 1)) ELSE s

\* String.prototype.trim
trim(s) == TrimEnd(TrimStart(s))

\* s.startsWith(prefix)
startsWith(s, prefix) ==
    Len(prefix) <= Len(s) /\ SubSeq(s, 1, Len(prefix)) = prefix

-----------------------------------------------------------------------------
(* The configuration file *)

\* A JSON value of an entry field: its typeof and its text ("undefined": the
\* key is not there).
Absent == [t |-> "undefined", v |-> <<>>]
Str(s) == [t |-> "string", v |-> s]
Num(digits) == [t |-> "number", v |-> digits]
Bool(b) == [t |-> "boolean", v |-> IF b THEN <<"t">> ELSE <<"f">>]

\* typeof x
typeof(x) == x.t

\* Whether `if (x)` takes the branch.
Truthy(x) ==
    CASE x.t = "string" -> x.v # <<>>
      [] x.t = "number" -> x.v # <<"0">>
      [] x.t = "boolean" -> x.v = <<"t">>
      [] OTHER -> FALSE

\* The greatest number of entries of a configuration.
MaxRoots == 2

\* Two entries readConfig accepts: a workspace-relative root, and an absolute
\* one that is labelled and grouped by its label.
WsEntry ==
    [workspacePath |-> Str(<<"a">>), path |-> Absent, pattern |-> Str(<<"t", "*">>),
     label |-> Absent, groupByLabel |-> Absent]
AbsEntry ==
    [workspacePath |-> Absent, path |-> Str(<<"/", "b">>), pattern |-> Str(<<"t", "*">>),
     label |-> Str(<<"L">>), groupByLabel |-> Bool(TRUE)]

\* The entries a configuration is made of: the two above and each of them
\* with one field changed: entries readConfig is to refuse, a pattern RegExp
\* cannot compile, a directory that is not there (/w/n), and labels that make
\* roots share a label or fall back on the computed one.
RootEntries ==
    { WsEntry, AbsEntry,
      [WsEntry EXCEPT !.path = Str(<<"/", "b">>)],
      [WsEntry EXCEPT !.workspacePath = Absent],
      [AbsEntry EXCEPT !.workspacePath = Num(<<"5">>)],
      [WsEntry EXCEPT !.pattern = Absent],
      [WsEntry EXCEPT !.pattern = Num(<<"5">>)],
      [WsEntry EXCEPT !.pattern = Str(<<>>)],
      [AbsEntry EXCEPT !.label = Num(<<"5">>)],
      [AbsEntry EXCEPT !.groupByLabel = Num(<<"5">>)],
      [WsEntry EXCEPT !.pattern = Str(<<"?">>)],
      [WsEntry EXCEPT !.workspacePath = Str(<<"n">>)],
      [WsEntry EXCEPT !.label = Str(<<"L">>)],
      [WsEntry EXCEPT !.label = Str(<<"L">>), !.groupByLabel = Bool(TRUE)],
      [AbsEntry EXCEPT !.label = Str(<<" ">>)] }

\* What .vscode/ctestlens.jsonc can be when it is read: not there, text with a
\* JSONC syntax error, well-formed text without a testRoots array, or an
\* object with a testRoots array.
Unread == [kind |-> "unread", testRoots |-> <<>>]
ConfigFiles ==
    { [kind |-> k, testRoots |-> <<>>] : k \in {"missing", "malformed", "noTestRoots"} }
    \cup { [kind |-> "testRoots", testRoots |-> rs] :
             rs \in UNION {[1..n -> RootEntries] : n \in 0..MaxRoots} }

\* readConfig's return values: null, or the parsed object.
NoConfig == [ok |-> FALSE, testRoots |-> <<>>]
Parsed(roots) == [ok |-> TRUE, testRoots |-> roots]

\* The body of readConfig's validation loop for one entry.
EntryAccepted(r) ==
    LET hasWorkspacePath == typeof(r.workspacePath) = "string"
        hasPath == typeof(r.path) = "string"
    IN  /\ hasWorkspacePath # hasPath
        /\ typeof(r.pattern) = "string" /\ Len(r.pattern.v) # 0
        /\ (typeof(r.label) = "undefined" \/ typeof(r.label) = "string")
        /\ (typeof(r.groupByLabel) = "undefined" \/ typeof(r.groupByLabel) = "boolean")

\* A loader that drops the entries it does not accept and keeps the others.
readConfigSkipInvalid(folder, file) ==
    IF ~folder \/ file.kind # "testRoots" THEN NoConfig
    ELSE Parsed(SelectSeq(file.testRoots, EntryAccepted))

\* readConfig
readConfig(folder, file) ==
    IF ~folder THEN NoConfig
    ELSE IF file.kind = "missing" THEN NoConfig
    ELSE IF file.kind = "malformed" THEN NoConfig
    ELSE IF file.kind = "noTestRoots" THEN NoConfig
    ELSE IF \E i \in 1..Len(file.testRoots) : ~EntryAccepted(file.testRoots[i])
        THEN NoConfig
    ELSE Parsed(file.testRoots)

-----------------------------------------------------------------------------
(* The file system discovery looks at *)

WorkspaceDir == <<"/", "w">>
Home == <<"/", "h">>

DirA == <<"/", "w", "/", "a">>
DirAS == <<"/", "w", "/", "a", "/", "s">>
DirASR == <<"/", "w", "/", "a", "/", "s", "/", "r">>
DirB == <<"/", "b">>

Ent(name, kind) == [name |-> name, kind |-> kind]

\* fs.readdir(dir, {withFileTypes: true}): the entries, or a failure.
\*   /w/a: s/ (directory), t (executable), tn (not executable),
\*         u/ (a directory that cannot be read)
\*   /w/a/s: t (executable), r/ (directory)
\*   /w/a/s/r: tr (executable, no source file goes with it)
\*   /b: t (executable), tz (executable, no source file goes with it),
\*       x (executable), to (not a regular file)
Readdir(dir) ==
    LET d == StripTrailingSep(dir)
    IN  CASE d = DirA -> [ok |-> TRUE,
                          entries |-> <<Ent(<<"s">>, "dir"), Ent(<<"t">>, "file"),
                                        Ent(<<"t", "n">>, "file"),
                                        Ent(<<"u">>, "dir")>>]
          [] d = DirAS -> [ok |-> TRUE,
                           entries |-> <<Ent(<<"t">>, "file"), Ent(<<"r">>, "dir")>>]
          [] d = DirASR -> [ok |-> TRUE, entries |-> <<Ent(<<"t", "r">>, "file")>>]
          [] d = DirB -> [ok |-> TRUE,
                          entries |-> <<Ent(<<"t">>, "file"), Ent(<<"t", "z">>, "file"),
                                        Ent(<<"x">>, "file"), Ent(<<"t", "o">>, "other")>>]
          [] OTHER -> [ok |-> FALSE, entries |-> <<>>]

\* The regular files the current user may execute.
ExecutableFiles ==
    { join(DirA, <<"t">>), join(DirAS, <<"t">>), join(DirASR, <<"t", "r">>),
      join(DirB, <<"t">>),
      join(DirB, <<"t", "z">>), join(DirB, <<"x">>) }

\* The *.c files of the workspace (outside .git).
SourceFiles == { <<"/", "w", "/", "s", "/", "t", ".", "c">>,
                 <<"/", "w", "/", "c", "/", "t", ".", "c">> }

\* isDir
isDir(p) ==
    StripTrailingSep(p) \in {DirA, DirAS, DirASR, join(DirA, <<"u">>), DirB, WorkspaceDir}

\* isExecutable without the fs.access(X_OK) check.
isExecutableNoAccessCheck(filePath) == TRUE
\* isExecutable
isExecutable(filePath) == filePath \in ExecutableFiles

RECURSIVE WalkRec(_)
RECURSIVE WalkEntries(_, _)
\* The loop of walkFiles' rec over the entries of one directory.
WalkEntries(dir, entries) ==
    IF entries = <<>> THEN <<>>
    ELSE LET ent == Head(entries)
             full == join(dir, ent.name)
         IN  (IF ent.kind = "dir" THEN WalkRec(full)
              ELSE IF ent.kind = "file" THEN <<full>>
              ELSE <<>>)
             \o WalkEntries(dir, Tail(entries))

\* walkFiles' rec: a directory that cannot be read contributes nothing.
WalkRec(dir) ==
    LET listing == Readdir(dir)
    IN  IF ~listing.ok THEN <<>> ELSE WalkEntries(dir, listing.entries)

\* walkFiles
walkFiles(root) == WalkRec(root)

-----------------------------------------------------------------------------
(* Root resolution and labels *)

Thrown == [kind |-> "throws", path |-> <<>>]
Null == [kind |-> "null", path |-> <<>>]
Resolved(p) == [kind |-> "path", path |-> p]

\* resolveAgainstWorkspace(p), p being whatever the entry field holds:
\* p.startsWith is not a function unless p is a string.
resolveAgainstWorkspace(folder, p) ==
    IF ~folder THEN Null
    ELSE IF typeof(p) # "string" THEN Thrown
    ELSE LET q == IF startsWith(p.v, <<"~", "/">>)
                      THEN join(Home, SubSeq(p.v, 3, Len(p.v)))
                  ELSE p.v
         IN  IF isAbsolute(q) THEN Resolved(normalize(q))
             ELSE Resolved(normalize(join(WorkspaceDir, q)))

\* resolveRootPath
resolveRootPath(folder, r) ==
    IF Truthy(r.workspacePath) THEN resolveAgainstWorkspace(folder, r.workspacePath)
    ELSE IF Truthy(r.path) THEN resolveAgainstWorkspace(folder, r.path)
    ELSE Null

S_ws == <<"w", "s", ":">>
S_abs == <<"a", "b", "s", ":">>
S_label == <<"l", "a", "b", "e", "l", ":">>
S_root == <<"r", "o", "o", "t", ":">>
S_group == <<"g", "r", "o", "u", "p", ":">>
S_bin == <<"b", "i", "n", ":">>
S_tests == <<"t", "e", "s", "t", "s">>

\* computedLabel
ComputedLabel(r, rootPath) ==
    IF Truthy(r.workspacePath) THEN S_ws \o r.workspacePath.v ELSE S_abs \o rootPath

\* effectiveLabel
EffectiveLabel(r, rootPath) ==
    IF Truthy(r.label) /\ Len(trim(r.label.v)) > 0 THEN trim(r.label.v)
    ELSE ComputedLabel(r, rootPath)

\* An id that also counts the nodes the tree held when the pass started.
RootIdCounting(i, rootPath) ==
    S_root \o NumToString(i + Cardinality(dStartTree["a"])) \o <<":">> \o rootPath

\* An id made of the root's path alone.
RootIdNoIndex(i, rootPath) == S_root \o rootPath
\* `root:${i}:${rootPath}`
RootId(i, rootPath) == S_root \o NumToString(i) \o <<":">> \o rootPath

-----------------------------------------------------------------------------
(* The tree: a node is known by the ids on the way from the top to it *)

\* The discovery passes that can be under way together: the one started at
\* activation and one started by the rediscover command.
Passes == {"a", "b"}

NoUri == <<>>

\* A node of the tree: its path of ids, the pass whose createTestItem made the
\* object, its label and its source location.
Node(path, by, label, uri) == [path |-> path, by |-> by, label |-> label, uri |-> uri]

\* A TestItem a pass holds on to: where the pass put it and the pass that
\* made it. TopOf(p) stands for controller.items in the hands of pass p.
Ref(path, by) == [path |-> path, by |-> by]
TopOf(p) == Ref(<<>>, p)
Child(parent, id) == Ref(Append(parent.path, id), parent.by)

\* The id of a node.
IdOf(path) == path[Len(path)]

IsPrefix(p, q) == Len(p) <= Len(q) /\ SubSeq(q, 1, Len(p)) = p

\* The object `ref` is (still) in the tree.
Attached(tree, ref) ==
    ref.path = <<>> \/ \E n \in tree : n.path = ref.path /\ n.by = ref.by

\* collection.add(item) on the children of `parent`: an item of the same id
\* that is already there is replaced, with all below it; adding below an
\* object that is no longer in the tree shows nothing.
AddItem(tree, parent, id, label, uri) ==
    LET np == Append(parent.path, id)
    IN  IF ~Attached(tree, parent) THEN tree
        ELSE {n \in tree : ~IsPrefix(np, n.path)} \cup {Node(np, parent.by, label, uri)}

\* map.has / map.get / map.set on a map kept as a set of [key, item] pairs.
CacheHasNever(cache, key) == FALSE
CacheHas(cache, key) == \E e \in cache : e.key = key
CacheGet(cache, key) == (CHOOSE e \in cache : e.key = key).item
CacheSet(cache, key, item) ==
    {e \in cache : e.key # key} \cup {[key |-> key, item |-> item]}

RECURSIVE GroupLoop(_, _, _, _, _, _, _)
\* The loop of getOrCreateGroup over the parts of the relative directory.
GroupLoop(tree, cache, created, rootId, current, acc, parts) ==
    IF parts = <<>> THEN [tree |-> tree, cache |-> cache, created |-> created,
                          current |-> current]
    ELSE LET p == Head(parts)
             acc2 == IF acc # <<>> THEN join(acc, p) ELSE p
             key == rootId \o <<":", ":">> \o acc2
             id == S_group \o key
         IN  IF CacheHas(cache, key)
                 THEN GroupLoop(tree, cache, created, rootId, CacheGet(cache, key),
                                acc2, Tail(parts))
             ELSE GroupLoop(AddItem(tree, current, id, p, NoUri),
                            CacheSet(cache, key, Child(current, id)),
                            created \cup {Append(current.path, id)},
                            rootId, Child(current, id), acc2, Tail(parts))

\* A getOrCreateGroup that makes no directory groups.
getOrCreateGroupFlat(tree, rootGroup, groupRelDir, groupCache) ==
    [tree |-> tree, cache |-> groupCache, created |-> {}, current |-> rootGroup]
\* getOrCreateGroup
getOrCreateGroup(tree, rootGroup, groupRelDir, groupCache) ==
    IF groupRelDir = <<>> \/ groupRelDir = <<".">>
        THEN [tree |-> tree, cache |-> groupCache, created |-> {}, current |-> rootGroup]
    ELSE GroupLoop(tree, groupCache, {}, IdOf(rootGroup.path), rootGroup, <<>>,
                   FilterNonEmpty(Split(groupRelDir, "/")))

-----------------------------------------------------------------------------
(* mapToSourceUri *)

\* `${baseName}@@${relDirUnderRoot}`
CacheKey(baseName, relDir) == baseName \o <<"@", "@">> \o relDir

\* The files findFiles("**/<baseName>.c", excluding **/.git/**) finds.
FindFiles(baseName) ==
    { f \in SourceFiles : Basename(f) = baseName \o <<".", "c">> }

\* All the orders a set can be listed in.
Orders(S) ==
    { s \in [1..Cardinality(S) -> S] : \A i, j \in 1..Cardinality(S) : s[i] = s[j] => i = j }

\* relParts / srcParts: the segments of a directory ("." has none).
DirParts(d) ==
    IF d # <<>> /\ d # <<".">> THEN FilterNonEmpty(Split(d, "/")) ELSE <<>>

RECURSIVE SuffixMatches(_, _)
\* The loop that counts suffixMatches, comparing from the end.
SuffixMatches(a, b) ==
    IF a = <<>> \/ b = <<>> \/ a[Len(a)] # b[Len(b)] THEN 0
    ELSE 1 + SuffixMatches(SubSeq(a, 1, Len(a) - 1), SubSeq(b, 1, Len(b) - 1))

Min(a, b) == IF a < b THEN a ELSE b

\* A score in which a suffix match weighs 10.
scoreCandidateLightSuffix(uri, relDir) ==
    LET srcParts == DirParts(dirname(relative(WorkspaceDir, uri)))
        suffixMatches == SuffixMatches(DirParts(relDir), srcParts)
        hasTests == IF \E k \in 1..Len(srcParts) : srcParts[k] = S_tests THEN 1 ELSE 0
        depth == Min(Len(srcParts), 20)
    IN  suffixMatches * 10 + hasTests * 50 + depth

\* scoreCandidate
scoreCandidate(uri, relDir) ==
    LET srcParts == DirParts(dirname(relative(WorkspaceDir, uri)))
        suffixMatches == SuffixMatches(DirParts(relDir), srcParts)
        hasTests == IF \E k \in 1..Len(srcParts) : srcParts[k] = S_tests THEN 1 ELSE 0
        depth == Min(Len(srcParts), 20)
    IN  suffixMatches * 1000 + hasTests * 50 + depth

\* A comparator that looks at the score only.
CompareScoreOnly(a, b, relDir) ==
    scoreCandidate(b, relDir) - scoreCandidate(a, relDir)

\* The comparator handed to sort: negative when a goes before b.
Compare(a, b, relDir) ==
    IF scoreCandidate(b, relDir) # scoreCandidate(a, relDir)
        THEN scoreCandidate(b, relDir) - scoreCandidate(a, relDir)
    ELSE Len(a) - Len(b)

RECURSIVE InsertRanked(_, _, _)
\* x put into a sorted list, behind every element it does not go before
\* (Array.prototype.sort is stable).
InsertRanked(sorted, x, relDir) ==
    IF sorted = <<>> THEN <<x>>
    ELSE IF Compare(x, Head(sorted), relDir) < 0 THEN <<x>> \o sorted
    ELSE <<Head(sorted)>> \o InsertRanked(Tail(sorted), x, relDir)

RECURSIVE SortRanked(_, _)
\* matches.sort(...) on the uris
SortRanked(matches, relDir) ==
    IF matches = <<>> THEN <<>>
    ELSE InsertRanked(SortRanked(SubSeq(matches, 1, Len(matches) - 1), relDir),
                      matches[Len(matches)], relDir)

\* ranked[0].uri
Chosen(matches, relDir) == SortRanked(matches, relDir)[1]

\* A mapper that remembers only the sources it found.
mapFoundNoNegativeCache(cache, cacheKey, matches, relDir) ==
    IF Len(matches) = 1
        THEN [uri |-> matches[1], cache |-> CacheSet(cache, cacheKey, matches[1])]
    ELSE IF Len(matches) = 0
        THEN [uri |-> NoUri, cache |-> cache]
    ELSE [uri |-> Chosen(matches, relDir),
          cache |-> CacheSet(cache, cacheKey, Chosen(matches, relDir))]

\* mapToSourceUri from the return of findFiles on: the uri returned (NoUri:
\* null) and the cache afterwards.
mapFound(cache, cacheKey, matches, relDir) ==
    IF Len(matches) = 1
        THEN [uri |-> matches[1], cache |-> CacheSet(cache, cacheKey, matches[1])]
    ELSE IF Len(matches) = 0
        THEN [uri |-> NoUri, cache |-> CacheSet(cache, cacheKey, NoUri)]
    ELSE [uri |-> Chosen(matches, relDir),
          cache |-> CacheSet(cache, cacheKey, Chosen(matches, relDir))]

\* mapToSourceUri up to findFiles: whether it returns at once (from the cache,
\* or null for want of a workspace folder) and what.
mapCached(folder, cache, cacheKey) ==
    IF CacheHas(cache, cacheKey)
        THEN [returns |-> TRUE, hit |-> TRUE, uri |-> CacheGet(cache, cacheKey)]
    ELSE IF ~folder THEN [returns |-> TRUE, hit |-> FALSE, uri |-> NoUri]
    ELSE [returns |-> FALSE, hit |-> FALSE, uri |-> NoUri]

\* mapToSourceUri, given what findFiles returns
mapToSourceUri(folder, cache, baseName, relDir, matches) ==
    LET cacheKey == CacheKey(baseName, relDir)
        early == mapCached(folder, cache, cacheKey)
    IN  IF early.returns THEN [uri |-> early.uri, cache |-> cache]
        ELSE mapFound(cache, cacheKey, matches, relDir)

-----------------------------------------------------------------------------
(* SpecMap: one call of mapToSourceUri, on an empty cache *)

\* The most candidates findFiles returns, and the number of directories above
\* the deepest of them (past the cap on the depth bonus).
MaxCandidates == 3
DeepDirs == 21

\* <workspace>/<dirs...>/t.c
SrcPath(dirs) ==
    WorkspaceDir \o <<"/">> \o JoinWith(dirs \o <<<<"t", ".", "c">>>>, "/")

\* DeepDirs directories "d" and then b.
DeepPath == SrcPath([k \in 1..DeepDirs |-> <<"d">>] \o <<<<"b">>>>)

\* The files named t.c the workspace may hold.
MapCandidates ==
    { SrcPath(<<<<"a">>>>), SrcPath(<<<<"b">>>>), SrcPath(<<<<"a">>, <<"b">>>>),
      SrcPath(<<S_tests>>), SrcPath(<<S_tests, <<"b">>>>),
      SrcPath(<<<<"a">>, S_tests>>), SrcPath(<<<<"c", "c">>>>), DeepPath }

\* The directories, relative to their root, the binary t may be in.
MapRelDirs == { <<".">>, <<"b">>, <<"a", "/", "b">>, S_tests }

\* What findFiles may return: up to MaxCandidates of the files, in any order.
MapMatches ==
    UNION { Orders(S) : S \in { T \in SUBSET MapCandidates :
                                   Cardinality(T) <= MaxCandidates } }

InitMap ==
    /\ sRelDir \in MapRelDirs
    /\ sMatches \in MapMatches
    /\ sDone = FALSE
    /\ sOut = <<>>
    /\ MatchOff
    /\ RunOff
    /\ DiscOff
    /\ InitOff
    /\ ReqOff
    /\ FnOff

\* mapToSourceUri("t", relDir) returns.
CallMapToSourceUri ==
    /\ ~sDone
    /\ sOut' = mapToSourceUri(TRUE, {}, <<"t">>, sRelDir, sMatches)
    /\ sDone' = TRUE
    /\ UNCHANGED <<sRelDir, sMatches, matchVars, runVars, discVars, initVars, reqVars, fnVars>>

NextMap == CallMapToSourceUri

SpecMap == InitMap /\ [][NextMap]_vars

-----------------------------------------------------------------------------
(* discover() *)

\* The locals of discover(): the loop indices (0-based), the resolved root,
\* its group, the caches, the walked files and the parent of the next leaf.
NoLocals ==
    [i |-> 0, rootPath |-> <<>>, rootGroup |-> Ref(<<>>, ""), labelGroupCache |-> {},
     groupCache |-> {}, allFiles |-> <<>>, j |-> 0, parent |-> Ref(<<>>, "")]

\* `continue` in the loop over the roots (or its end): on to the next entry.
ContinueRoots(loc) ==
    [loc EXCEPT !.i = @ + 1, !.rootPath = <<>>, !.rootGroup = Ref(<<>>, ""),
                !.groupCache = {}, !.allFiles = <<>>, !.j = 0,
                !.parent = Ref(<<>>, "")]

\* `continue` in the loop over the files.
ContinueFiles(loc) == [loc EXCEPT !.j = @ + 1, !.parent = Ref(<<>>, "")]

\* The entry and the file the loops of pass p are at.
CurRoot(p) == dCfg[p].testRoots[dLoc[p].i + 1]
CurFile(p) == dLoc[p].allFiles[dLoc[p].j + 1]

\* The state of the passes when none has run.
NoPassYet ==
    /\ dPc = [p \in Passes |-> "idle"]
    /\ dRead = [p \in Passes |-> Unread]
    /\ dCfg = [p \in Passes |-> NoConfig]
    /\ dPrev = [p \in Passes |-> NoConfig]
    /\ dLoc = [p \in Passes |-> NoLocals]
    /\ dTree = {}
    /\ dBin = {}
    /\ dSrc = {}
    /\ dSrcBy = {}
    /\ dSrcReads = [p \in Passes |-> {}]
    /\ dStartTree = [p \in Passes |-> {}]
    /\ dScanned = [p \in Passes |-> {}]
    /\ dCreated = [p \in Passes |-> {}]

\* The workspace as the extension finds it when it is activated.
InitDiscover ==
    /\ dFolder \in BOOLEAN
    /\ dFile \in ConfigFiles
    /\ NoPassYet
    /\ MatchOff
    /\ RunOff
    /\ MapOff
    /\ InitOff
    /\ ReqOff
    /\ FnOff

\* discover() is called (at activation, or by the rediscover command): both
\* maps and the tree are emptied, then readConfig is awaited.
StartDiscover(p) ==
    /\ dPc[p] \in {"idle", "done", "thrown"}
    /\ dBin' = {}
    /\ dSrc' = {}
    /\ dSrcBy' = {}
    /\ dTree' = {}
    /\ dPrev' = [dPrev EXCEPT ![p] = IF dPc[p] = "done" THEN dCfg[p] ELSE NoConfig]
    /\ dStartTree' = [dStartTree EXCEPT ![p] = dTree]
    /\ dScanned' = [dScanned EXCEPT ![p] = {}]
    /\ dCreated' = [dCreated EXCEPT ![p] = {}]
    /\ dSrcReads' = [dSrcReads EXCEPT ![p] = {}]
    /\ dRead' = [dRead EXCEPT ![p] = Unread]
    /\ dCfg' = [dCfg EXCEPT ![p] = NoConfig]
    /\ dLoc' = [dLoc EXCEPT ![p] = NoLocals]
    /\ dPc' = [dPc EXCEPT ![p] = "readConfig"]
    /\ UNCHANGED <<dFolder, dFile, matchVars, runVars, mapVars, initVars, reqVars, fnVars>>

\* readConfig returns, having found `file`; `if (!cfg) return`.
ReadConfigOf(p, file) ==
    LET cfg == readConfig(dFolder, file)
    IN  /\ dPc[p] = "readConfig"
        /\ dRead' = [dRead EXCEPT ![p] = file]
        /\ dCfg' = [dCfg EXCEPT ![p] = cfg]
        /\ dPc' = [dPc EXCEPT ![p] = IF cfg.ok THEN "root" ELSE "done"]
        /\ UNCHANGED <<dFolder, dFile, dPrev, dLoc, dTree, dBin, dSrc, dSrcBy,
                       dSrcReads, dStartTree, dScanned, dCreated, matchVars, runVars,
                       mapVars, initVars, reqVars, fnVars>>

\* readConfig returns; the file is what it is at that moment (nothing is
\* read when no workspace folder is open).
ReadConfig(p) == ReadConfigOf(p, IF dFolder THEN dFile ELSE Unread)

\* What the file is once somebody has deleted it or broken its syntax.
BrokenFiles == { f \in ConfigFiles : f.kind \in {"missing", "malformed"} }

\* The user (or another program) deletes the configuration file or leaves it
\* with a syntax error.
EditConfig ==
    /\ dFile \notin BrokenFiles
    /\ dFile' \in BrokenFiles
    /\ UNCHANGED <<dFolder, dPc, dRead, dCfg, dPrev, dLoc, dTree, dBin, dSrc, dSrcBy,
                   dSrcReads, dStartTree, dScanned, dCreated, matchVars, runVars,
                   mapVars, initVars, reqVars, fnVars>>

\* The head of the loop over the roots: the loop ends, or resolveRootPath
\* throws, or gives nothing (continue), or gives the path isDir is awaited on.
NextRoot(p) ==
    /\ dPc[p] = "root"
    /\ IF dLoc[p].i >= Len(dCfg[p].testRoots)
           THEN /\ dPc' = [dPc EXCEPT ![p] = "done"]
                /\ dLoc' = [dLoc EXCEPT ![p] = NoLocals]
       ELSE LET res == resolveRootPath(dFolder, CurRoot(p))
            IN  CASE res.kind = "throws" ->
                       /\ dPc' = [dPc EXCEPT ![p] = "thrown"]
                       /\ dLoc' = dLoc
                  [] res.kind = "null" ->
                       /\ dPc' = dPc
                       /\ dLoc' = [dLoc EXCEPT ![p] = ContinueRoots(@)]
                  [] OTHER ->
                       /\ dPc' = [dPc EXCEPT ![p] = "isDir"]
                       /\ dLoc' = [dLoc EXCEPT ![p].rootPath = res.path]
    /\ UNCHANGED <<dFolder, dFile, dRead, dCfg, dPrev, dTree, dBin, dSrc, dSrcBy,
                   dSrcReads, dStartTree, dScanned, dCreated, matchVars, runVars,
                   mapVars, initVars, reqVars, fnVars>>

\* isDir returns: not a directory (continue), or the root's group is created
\* (under the shared label group when groupByLabel is true; the
\* labelGroupDirCache map is written but never read) and walkFiles is awaited.
IsDir(p) ==
    /\ dPc[p] = "isDir"
    /\ LET r == CurRoot(p)
           loc == dLoc[p]
           rootPath == loc.rootPath
           computedLabel == ComputedLabel(r, rootPath)
           effectiveLabel == EffectiveLabel(r, rootPath)
           rootId == RootId(loc.i, rootPath)
           groupId == S_label \o effectiveLabel
           cached == CacheHas(loc.labelGroupCache, effectiveLabel)
           labelGroup == IF cached THEN CacheGet(loc.labelGroupCache, effectiveLabel)
                         ELSE Child(TopOf(p), groupId)
           withLabel == IF cached THEN dTree
                        ELSE AddItem(dTree, TopOf(p), groupId, effectiveLabel, NoUri)
       IN  IF ~isDir(rootPath)
               THEN /\ dPc' = [dPc EXCEPT ![p] = "root"]
                    /\ dLoc' = [dLoc EXCEPT ![p] = ContinueRoots(@)]
                    /\ UNCHANGED <<dTree, dCreated>>
           ELSE IF r.groupByLabel = Bool(TRUE)
               THEN /\ dTree' = AddItem(withLabel, labelGroup, rootId, computedLabel, NoUri)
                    /\ dCreated' = [dCreated EXCEPT ![p] =
                                      @ \cup (IF cached THEN {} ELSE {labelGroup.path})
                                        \cup {Append(labelGroup.path, rootId)}]
                    /\ dLoc' = [dLoc EXCEPT
                                  ![p].labelGroupCache =
                                      CacheSet(@, effectiveLabel, labelGroup),
                                  ![p].rootGroup = Child(labelGroup, rootId),
                                  ![p].groupCache = {}]
                    /\ dPc' = [dPc EXCEPT ![p] = "walkFiles"]
           ELSE /\ dTree' = AddItem(dTree, TopOf(p), rootId, effectiveLabel, NoUri)
                /\ dCreated' = [dCreated EXCEPT ![p] = @ \cup {<<rootId>>}]
                /\ dLoc' = [dLoc EXCEPT ![p].rootGroup = Child(TopOf(p), rootId),
                                        ![p].groupCache = {}]
                /\ dPc' = [dPc EXCEPT ![p] = "walkFiles"]
    /\ UNCHANGED <<dFolder, dFile, dRead, dCfg, dPrev, dBin, dSrc, dSrcBy, dSrcReads,
                   dStartTree, dScanned, matchVars, runVars, mapVars, initVars,
                   reqVars, fnVars>>

\* walkFiles returns the files under the root.
WalkFiles(p) ==
    /\ dPc[p] = "walkFiles"
    /\ dLoc' = [dLoc EXCEPT ![p].allFiles = walkFiles(dLoc[p].rootPath), ![p].j = 0]
    /\ dScanned' = [dScanned EXCEPT ![p] = @ \cup {dLoc[p].i}]
    /\ dPc' = [dPc EXCEPT ![p] = "file"]
    /\ UNCHANGED <<dFolder, dFile, dRead, dCfg, dPrev, dTree, dBin, dSrc, dSrcBy,
                   dSrcReads, dStartTree, dCreated, matchVars, runVars, mapVars,
                   initVars, reqVars, fnVars>>

\* The head of the loop over the files: the loop ends (next root), or
\* matchesPattern throws, or says no (continue), or isExecutable is awaited.
NextFile(p) ==
    /\ dPc[p] = "file"
    /\ IF dLoc[p].j >= Len(dLoc[p].allFiles)
           THEN /\ dPc' = [dPc EXCEPT ![p] = "root"]
                /\ dLoc' = [dLoc EXCEPT ![p] = ContinueRoots(@)]
       ELSE LET m == matchesPattern(CurFile(p), CurRoot(p).pattern.v)
            IN  CASE m = "throws" ->
                       /\ dPc' = [dPc EXCEPT ![p] = "thrown"]
                       /\ dLoc' = dLoc
                  [] m = "false" ->
                       /\ dPc' = dPc
                       /\ dLoc' = [dLoc EXCEPT ![p] = ContinueFiles(@)]
                  [] OTHER ->
                       /\ dPc' = [dPc EXCEPT ![p] = "isExecutable"]
                       /\ dLoc' = dLoc
    /\ UNCHANGED <<dFolder, dFile, dRead, dCfg, dPrev, dTree, dBin, dSrc, dSrcBy,
                   dSrcReads, dStartTree, dScanned, dCreated, matchVars, runVars,
                   mapVars, initVars, reqVars, fnVars>>

\* controller.createTestItem(testId, base, srcUri), parent.children.add(item)
\* and binaryByTestId.set(testId, fp) for the file pass p is at; on to the
\* next file.
CreateLeaf(p, tree, parent, uri) ==
    LET fp == CurFile(p)
        testId == S_bin \o fp
    IN  /\ dTree' = AddItem(tree, parent, testId, Basename(fp), uri)
        /\ dBin' = {b \in dBin : b.id # testId} \cup {[id |-> testId, path |-> fp]}
        /\ dPc' = [dPc EXCEPT ![p] = "file"]

\* isExecutable returns: no (continue), or the groups of the file's relative
\* directory are fetched or created and mapToSourceUri is called; it returns
\* at once from the cache (or for want of a workspace folder) and the leaf is
\* created, or findFiles is awaited.
IsExecutable(p) ==
    /\ dPc[p] = "isExecutable"
    /\ LET loc == dLoc[p]
           fp == CurFile(p)
           rel == relative(loc.rootPath, fp)
           relDir == dirname(rel)
           g == getOrCreateGroup(dTree, loc.rootGroup, relDir, loc.groupCache)
           cacheKey == CacheKey(ParseName(Basename(fp)), relDir)
           early == mapCached(dFolder, dSrc, cacheKey)
       IN  IF ~isExecutable(fp)
               THEN /\ dPc' = [dPc EXCEPT ![p] = "file"]
                    /\ dLoc' = [dLoc EXCEPT ![p] = ContinueFiles(@)]
                    /\ UNCHANGED <<dTree, dBin, dCreated, dSrcReads>>
           ELSE IF early.returns
               THEN /\ CreateLeaf(p, g.tree, g.current, early.uri)
                    /\ dCreated' = [dCreated EXCEPT ![p] =
                                      @ \cup g.created
                                        \cup {Append(g.current.path, S_bin \o fp)}]
                    /\ dLoc' = [dLoc EXCEPT ![p] =
                                  ContinueFiles([@ EXCEPT !.groupCache = g.cache])]
                    /\ dSrcReads' =
                         [dSrcReads EXCEPT ![p] =
                            @ \cup {e.by : e \in {x \in dSrcBy : early.hit /\ x.key = cacheKey}}]
           ELSE /\ dTree' = g.tree
                /\ dCreated' = [dCreated EXCEPT ![p] = @ \cup g.created]
                /\ dLoc' = [dLoc EXCEPT ![p].groupCache = g.cache,
                                        ![p].parent = g.current]
                /\ dPc' = [dPc EXCEPT ![p] = "mapToSourceUri"]
                /\ UNCHANGED <<dBin, dSrcReads>>
    /\ UNCHANGED <<dFolder, dFile, dRead, dCfg, dPrev, dSrc, dSrcBy, dStartTree,
                   dScanned, matchVars, runVars, mapVars, initVars,
                   reqVars, fnVars>>

\* findFiles returns (in some order): mapToSourceUri picks the source, writes
\* the cache and returns, and the leaf is created.
MapToSourceUri(p) ==
    /\ dPc[p] = "mapToSourceUri"
    /\ LET loc == dLoc[p]
           fp == CurFile(p)
           relDir == dirname(relative(loc.rootPath, fp))
           baseName == ParseName(Basename(fp))
           cacheKey == CacheKey(baseName, relDir)
       IN  \E matches \in Orders(FindFiles(baseName)) :
             LET m == mapFound(dSrc, cacheKey, matches, relDir)
             IN  /\ dSrc' = m.cache
                 /\ dSrcBy' = IF m.cache = dSrc /\ ~CacheHas(m.cache, cacheKey) THEN dSrcBy
                              ELSE {x \in dSrcBy : x.key # cacheKey}
                                     \cup {[key |-> cacheKey, by |-> p]}
                 /\ CreateLeaf(p, dTree, loc.parent, m.uri)
                 /\ dCreated' = [dCreated EXCEPT ![p] =
                                   @ \cup {Append(loc.parent.path, S_bin \o fp)}]
    /\ dLoc' = [dLoc EXCEPT ![p] = ContinueFiles(@)]
    /\ UNCHANGED <<dFolder, dFile, dRead, dCfg, dPrev, dSrcReads, dStartTree, dScanned,
                   matchVars, runVars, mapVars, initVars, reqVars, fnVars>>

\* One pass at a time: every call of discover() is made after the one before
\* it has returned.
Next ==
    \/ EditConfig
    \/ StartDiscover("a")
    \/ ReadConfig("a")
    \/ NextRoot("a")
    \/ IsDir("a")
    \/ WalkFiles("a")
    \/ NextFile("a")
    \/ IsExecutable("a")
    \/ MapToSourceUri("a")

Spec == InitDiscover /\ [][Next]_vars

\* The extension host does by itself what activate() makes it do: the startup
\* pass begins, and readConfig, once awaited, returns. The rediscover command
\* and the edits of the file are the user's to make or not.
FairSpec ==
    /\ Spec
    /\ WF_vars(dPc["a"] = "idle" /\ StartDiscover("a"))
    /\ WF_vars(ReadConfig("a"))

\* A workspace folder is open and the file lists one root.
InitOverlap ==
    /\ InitDiscover
    /\ dFolder
    /\ dFile.kind = "testRoots"
    /\ dFile.testRoots \in {<<WsEntry>>, <<AbsEntry>>}

\* Two calls of discover() may be under way together: the one at activation
\* (pass "a", called once and not awaited, before any command can run) and
\* the one the rediscover command makes (pass "b", whenever the user runs it
\* again). Each runs from one await to the next, and the file may be edited
\* in between.
NextOverlap ==
    \/ EditConfig
    \/ \E p \in Passes :
        \/ /\ p = "a" => dPc["a"] = "idle"
           /\ p = "b" => dPc["a"] # "idle"
           /\ StartDiscover(p)
        \/ ReadConfig(p)
        \/ NextRoot(p)
        \/ IsDir(p)
        \/ WalkFiles(p)
        \/ NextFile(p)
        \/ IsExecutable(p)
        \/ MapToSourceUri(p)

SpecOverlap == InitOverlap /\ [][NextOverlap]_vars

-----------------------------------------------------------------------------
(* SpecRequest: a request of the Run or the Debug profile, and discovery *)

\* The most items a request selects.
MaxInclude == 2

\* A configuration of two roots: /w/a/s, where t and r/tr match, and
\* /w/a/s/r, where nothing matches the pattern.
RequestRoots ==
    << [WsEntry EXCEPT !.workspacePath = Str(<<"a", "/", "s">>)],
       [WsEntry EXCEPT !.workspacePath = Str(<<"a", "/", "s", "/", "r">>),
                       !.pattern = Str(<<"x">>)] >>

\* t.children of an item of the tree.
ChildrenOf(tree, t) ==
    { n \in tree : /\ Len(n.path) = Len(t.path) + 1
                   /\ SubSeq(n.path, 1, Len(t.path)) = t.path }

\* controller.items
TopItems(tree) == { n \in tree : Len(n.path) = 1 }

RECURSIVE Visit(_, _)
\* `for (const t of selected) visit(t)`: an item without children is pushed
\* to `leaves`, the children of any other are visited in their turn (forEach
\* goes by the order of insertion, which the tree here does not keep: every
\* order is taken). Gives the values `leaves` can have.
Visit(tree, selected) ==
    IF selected = <<>> THEN {<<>>}
    ELSE LET t == Head(selected)
             kids == ChildrenOf(tree, t)
             first == IF kids = {} THEN {<<t>>}
                      ELSE UNION { Visit(tree, o) : o \in Orders(kids) }
         IN  { a \o b : a \in first, b \in Visit(tree, Tail(selected)) }

\* The values of request.include: nothing, or up to MaxInclude different
\* items of the tree.
Includes(tree) ==
    UNION { { s \in [1..n -> tree] : \A i, j \in 1..n : s[i] = s[j] => i = j } :
              n \in 0..MaxInclude }

\* `selected`: request.include, or all of controller.items.
Selected(tree, include) ==
    IF Len(include) > 0 THEN {include} ELSE Orders(TopItems(tree))

\* binaryByTestId.get(test.id) finds a path.
HasBinary(bin, test) == \E b \in bin : b.id = IdOf(test.path)

\* A loop that goes on after cancellation.
LoopBreaksNever(token) == FALSE
\* `if (token.isCancellationRequested) break;`
LoopBreaks(token) == token

\* A call on the TestRun.
RunCall(call, test, msg) == [call |-> call, item |-> test, msg |-> msg]
NoItem == [path |-> <<>>, by |-> "", label |-> <<>>, uri |-> NoUri]
MissingBinaryPath == "Missing binary path for test item."

\* What the awaited call comes back with: spawnAndReport's pass, fail or
\* error, or startDebugging's true or false.
Settled(kind, test) ==
    IF kind = "run"
        THEN { RunCall("passed", test, ""), RunCall("failed", test, "exit"),
               RunCall("errored", test, "launch") }
    ELSE { RunCall("passed", test, ""),
           RunCall("errored", test, "Failed to start debugger.") }

InitRequest ==
    /\ dFolder \in BOOLEAN
    /\ dFile = [kind |-> "testRoots", testRoots |-> RequestRoots]
    /\ NoPassYet
    /\ qPc = "idle"
    /\ qKind = ""
    /\ qInclude = <<>>
    /\ qLeaves = <<>>
    /\ qIdx = 0
    /\ qToken = FALSE
    /\ qCalls = <<>>
    /\ qCancelAt = 0
    /\ MatchOff
    /\ RunOff
    /\ MapOff
    /\ InitOff
    /\ FnOff

\* The handler is called, a pass having filled the tree: createTestRun, the
\* selection, the flattening; the Debug handler ends the run at once when no
\* workspace folder is open.
StartRequest ==
    /\ qPc = "idle"
    /\ dPc["a"] = "done"
    /\ \E kind \in {"run", "debug"}, include \in Includes(dTree) :
         \E selected \in Selected(dTree, include) :
           \E leaves \in Visit(dTree, selected) :
             /\ qKind' = kind
             /\ qInclude' = include
             /\ qLeaves' = leaves
             /\ qIdx' = 1
             /\ IF kind = "debug" /\ ~dFolder
                    THEN /\ qCalls' = <<RunCall("end", NoItem, "")>>
                         /\ qPc' = "ended"
                ELSE /\ qCalls' = <<>>
                     /\ qPc' = "loop"
    /\ UNCHANGED <<qToken, qCancelAt, matchVars, runVars, discVars, mapVars, initVars,
                   fnVars>>

\* The loop body when binaryByTestId has no path for the item: run.errored,
\* continue.
RequestMissingBinary ==
    /\ qPc = "loop"
    /\ qIdx <= Len(qLeaves) /\ ~LoopBreaks(qToken)
    /\ ~HasBinary(dBin, qLeaves[qIdx])
    /\ qCalls' = Append(qCalls, RunCall("errored", qLeaves[qIdx], MissingBinaryPath))
    /\ qIdx' = qIdx + 1
    /\ UNCHANGED <<qPc, qKind, qInclude, qLeaves, qToken, qCancelAt, matchVars, runVars,
                   discVars, mapVars, initVars, fnVars>>

\* The loop body up to its await: run.enqueued (Run profile only),
\* run.started, then spawnAndReport or vscode.debug.startDebugging.
RequestStarted ==
    /\ qPc = "loop"
    /\ qIdx <= Len(qLeaves) /\ ~LoopBreaks(qToken)
    /\ HasBinary(dBin, qLeaves[qIdx])
    /\ qCalls' = qCalls
                  \o (IF qKind = "run" THEN <<RunCall("enqueued", qLeaves[qIdx], "")>>
                      ELSE <<>>)
                  \o <<RunCall("started", qLeaves[qIdx], "")>>
    /\ qPc' = "await"
    /\ UNCHANGED <<qKind, qInclude, qLeaves, qIdx, qToken, qCancelAt, matchVars, runVars,
                   discVars, mapVars, initVars, fnVars>>

\* The continuation of the await: run.passed, run.failed or run.errored.
RequestSettled ==
    /\ qPc = "await"
    /\ \E c \in Settled(qKind, qLeaves[qIdx]) : qCalls' = Append(qCalls, c)
    /\ qIdx' = qIdx + 1
    /\ qPc' = "loop"
    /\ UNCHANGED <<qKind, qInclude, qLeaves, qToken, qCancelAt, matchVars, runVars,
                   discVars, mapVars, initVars, fnVars>>

\* The user cancels the run while the handler awaits.
RequestCancelled ==
    /\ qPc = "await"
    /\ ~qToken
    /\ qToken' = TRUE
    /\ qCancelAt' = Len(qCalls)
    /\ UNCHANGED <<qPc, qKind, qInclude, qLeaves, qIdx, qCalls, matchVars, runVars,
                   discVars, mapVars, initVars, fnVars>>

\* The loop is over, or broken out of: run.end().
RequestEnd ==
    /\ qPc = "loop"
    /\ qIdx > Len(qLeaves) \/ LoopBreaks(qToken)
    /\ qCalls' = Append(qCalls, RunCall("end", NoItem, ""))
    /\ qPc' = "ended"
    /\ UNCHANGED <<qKind, qInclude, qLeaves, qIdx, qToken, qCancelAt, matchVars, runVars,
                   discVars, mapVars, initVars, fnVars>>

\* The handler is not running: it has not been called yet, or it awaits. Only
\* then does a step of discovery run (what discovery does once the handler
\* has returned is of no account to the request).
HandlerAtRest == qPc \in {"idle", "await"}

\* One request, and discovery passes one after the other (at activation, then
\* by the rediscover command), each running from one await to the next.
NextRequest ==
    \/ StartRequest
    \/ RequestMissingBinary
    \/ RequestStarted
    \/ RequestSettled
    \/ RequestCancelled
    \/ RequestEnd
    \/ HandlerAtRest /\ StartDiscover("a")
    \/ HandlerAtRest /\ ReadConfig("a")
    \/ HandlerAtRest /\ NextRoot("a")
    \/ HandlerAtRest /\ IsDir("a")
    \/ HandlerAtRest /\ WalkFiles("a")
    \/ HandlerAtRest /\ NextFile("a")
    \/ HandlerAtRest /\ IsExecutable("a")
    \/ HandlerAtRest /\ MapToSourceUri("a")

SpecRequest == InitRequest /\ [][NextRequest]_vars

-----------------------------------------------------------------------------
(* SpecInit: initDefaultConfigIfMissing, the "Create default config" command *)

\* The calls of the command that may be under way together.
NumInitCalls == 2
InitCalls == 1..NumInitCalls

\* The file the template (237-292) makes.
DefaultConfig ==
    [kind |-> "testRoots",
     testRoots |->
       <<[label |-> Str(<<"L", "o", "c", "a", "l", " ", "b", "u", "i", "l", "d",
                   " ", "t", "e", "s", "t", "s">>),
          groupByLabel |-> Bool(TRUE),
          workspacePath |-> Str(<<"o", "u", "t", "/", "b", "u", "i", "l", "d", "/", "t",
                   "e", "s", "t", "s">>),
          path |-> Absent,
          pattern |-> Str(<<"t", "e", "s", "t", "_", "*">>)],
         [label |-> Str(<<"C", "I", " ", "t", "e", "s", "t", "s">>),
          groupByLabel |-> Bool(TRUE),
          workspacePath |-> Absent,
          path |-> Str(<<"/", "h", "o", "m", "e", "/", "u", "s", "e", "r", "/",
                   "t", "m", "p", "/", "c", "i", "-", "t", "e", "s", "t",
                   "s">>),
          pattern |-> Str(<<"*", "_", "t", "e", "s", "t">>)]>>]

\* What the user (or another program) may have put in the file.
UserFiles == { f \in ConfigFiles : f.kind # "missing" /\ Len(f.testRoots) <= 1 }

InitInitConfig ==
    /\ iPc = [c \in InitCalls |-> "idle"]
    /\ iWrites = {}
    /\ dFolder \in BOOLEAN
    /\ dFile \in UserFiles \cup {[kind |-> "missing", testRoots |-> <<>>]}
    /\ NoPassYet
    /\ MatchOff
    /\ RunOff
    /\ MapOff
    /\ ReqOff
    /\ FnOff

\* The command is run: no workspace folder (error message, return), or
\* fs.stat of the file is awaited.
CallInit(c) ==
    /\ iPc[c] = "idle"
    /\ iPc' = [iPc EXCEPT ![c] = IF dFolder THEN "stat" ELSE "done"]
    /\ UNCHANGED <<iWrites, matchVars, runVars, discVars, mapVars, reqVars, fnVars>>

\* fs.stat returns: the file is there (return), or it throws and
\* createDirectory(.vscode) is awaited.
Stat(c) ==
    /\ iPc[c] = "stat"
    /\ iPc' = [iPc EXCEPT ![c] = IF dFile.kind # "missing" THEN "done"
                                 ELSE "createDirectory"]
    /\ UNCHANGED <<iWrites, matchVars, runVars, discVars, mapVars, reqVars, fnVars>>

\* createDirectory returns (or throws, which is caught): writeFile is awaited.
CreateDirectory(c) ==
    /\ iPc[c] = "createDirectory"
    /\ iPc' = [iPc EXCEPT ![c] = "writeFile"]
    /\ UNCHANGED <<iWrites, matchVars, runVars, discVars, mapVars, reqVars, fnVars>>

\* fs.writeFile(cfgUri, bytes) puts the template in the file, whatever is
\* there by now.
WriteFile(c) ==
    /\ iPc[c] = "writeFile"
    /\ dFile' = DefaultConfig
    /\ iWrites' = iWrites \cup {dFile}
    /\ iPc' = [iPc EXCEPT ![c] = "done"]
    /\ UNCHANGED <<dFolder, dPc, dRead, dCfg, dPrev, dLoc, dTree, dBin, dSrc, dSrcBy,
                   dSrcReads, dStartTree, dScanned, dCreated, matchVars, runVars,
                   mapVars, reqVars, fnVars>>

\* The user (or another program) creates the file or changes what is in it.
UserWrites ==
    /\ dFolder
    /\ dFile' \in UserFiles \ {dFile}
    /\ UNCHANGED <<dFolder, dPc, dRead, dCfg, dPrev, dLoc, dTree, dBin, dSrc, dSrcBy,
                   dSrcReads, dStartTree, dScanned, dCreated, matchVars, runVars,
                   mapVars, initVars, reqVars, fnVars>>

NextInit ==
    \/ UserWrites
    \/ \E c \in InitCalls : CallInit(c) \/ Stat(c) \/ CreateDirectory(c) \/ WriteFile(c)

SpecInit == InitInitConfig /\ [][NextInit]_vars

-----------------------------------------------------------------------------
(* SpecResolve: one call of resolveRootPath *)

\* The longest path string an entry holds.
MaxRootLen == 3

\* The characters of the path strings: what the rules of resolution look at.
RootChars == {"~", "/", ".", "a"}

\* The two fields an entry can name its directory with.
RootFields == {"workspacePath", "path"}

\* An entry readConfig accepts, holding the string p in the field `field`.
EntryWith(field, p) ==
    [workspacePath |-> IF field = "workspacePath" THEN Str(p) ELSE Absent,
     path |-> IF field = "path" THEN Str(p) ELSE Absent,
     pattern |-> Str(<<"t", "*">>), label |-> Absent, groupByLabel |-> Absent]

InitResolve ==
    /\ fArgs \in [folder : BOOLEAN, field : RootFields, p : StringsUpTo(RootChars, MaxRootLen)]
    /\ fDone = FALSE
    /\ fOut = <<>>
    /\ MatchOff
    /\ RunOff
    /\ DiscOff
    /\ MapOff
    /\ InitOff
    /\ ReqOff

\* discover() awaits resolveRootPath(r) for an entry of the configuration.
CallResolveRootPath ==
    /\ ~fDone
    /\ fDone' = TRUE
    /\ fOut' = resolveRootPath(fArgs.folder, EntryWith(fArgs.field, fArgs.p))
    /\ UNCHANGED <<fArgs, matchVars, runVars, discVars, mapVars, initVars, reqVars>>

NextResolve == CallResolveRootPath

SpecResolve == InitResolve /\ [][NextResolve]_vars

-----------------------------------------------------------------------------
(* SpecTail: the 'data' and 'close' handlers of spawnAndReport, nonzero exit *)

\* The number of characters of a stream the message of a nonzero exit keeps.
TailChars == 4000

\* The longest of the short chunks a child writes.
MaxChunkLen == 2

\* The characters a child writes: a line feed, and any other character.
OutChars == {"x", "\n"}

\* n times the character c.
Rep(c, n) == [i \in 1..n |-> c]

RECURSIVE normalizeTestOutput(_)
\* normalizeTestOutput: s.replace(/\n/g, "\r\n"), every line feed replaced,
\* by halves.
normalizeTestOutput(s) ==
    IF Len(s) = 0 THEN <<>>
    ELSE IF Len(s) = 1 THEN (IF s[1] = "\n" THEN <<"\r", "\n">> ELSE s)
    ELSE LET h == Len(s) \div 2
         IN  normalizeTestOutput(SubSeq(s, 1, h))
                 \o normalizeTestOutput(SubSeq(s, h + 1, Len(s)))

RECURSIVE OnData(_, _)
\* child.stdout.on("data") / child.stderr.on("data") for the chunks of one
\* stream in turn: stdout += normalizeTestOutput(d.toString()).
OnData(captured, chunks) ==
    IF chunks = <<>> THEN captured
    ELSE OnData(captured \o normalizeTestOutput(Head(chunks)), Tail(chunks))

\* tail
tail(s, n) == IF Len(s) <= n THEN s ELSE SubSeq(s, Len(s) - n + 1, Len(s))

\* One section of msgText: left out when the stream captured nothing.
Section(captured) ==
    IF captured # <<>> THEN [present |-> TRUE, text |-> tail(captured, TailChars)]
    ELSE [present |-> FALSE, text |-> <<>>]

\* msgText, by its parts: `Exit code: ${code}`, the stderr section, the
\* stdout section.
MsgText(code, stderr, stdout) ==
    [code |-> code, stderr |-> Section(stderr), stdout |-> Section(stdout)]

\* What a child writes to one stream, by the chunks the 'data' events carry:
\* nothing, or a short chunk, or a long run of characters and then a short
\* chunk, so that the whole is just below, at or above TailChars characters.
Streams ==
    { SelectSeq(<<Rep("x", n), c>>, LAMBDA d : d # <<>>) :
        n \in {0, TailChars - 1}, c \in StringsUpTo(OutChars, MaxChunkLen) }

\* The exit codes of a child that fails.
NonzeroCodes == {"1", "2"}

InitTail ==
    /\ fArgs \in [code : NonzeroCodes, stderr : Streams, stdout : Streams]
    /\ fDone = FALSE
    /\ fOut = <<>>
    /\ MatchOff
    /\ RunOff
    /\ DiscOff
    /\ MapOff
    /\ InitOff
    /\ ReqOff

\* child.on("close") with a nonzero code and no signal, after the 'data'
\* events of both streams: resolve({kind: "fail", message: msgText}).
OnCloseNonzero ==
    /\ ~fDone
    /\ fDone' = TRUE
    /\ fOut' = MsgText(fArgs.code, OnData(<<>>, fArgs.stderr), OnData(<<>>, fArgs.stdout))
    /\ UNCHANGED <<fArgs, matchVars, runVars, discVars, mapVars, initVars, reqVars>>

NextTail == OnCloseNonzero

SpecTail == InitTail /\ [][NextTail]_vars

-----------------------------------------------------------------------------
(* Claims about the configuration loader and the discovery pass *)

\* The key is in the entry (with whatever value).
IsSet(x) == typeof(x) # "undefined"

\* The pass has got past readConfig.
ConfigWasRead == dPc["a"] \in {"root", "isDir", "walkFiles", "file", "isExecutable",
                          "mapToSourceUri", "done", "thrown"}

\* The pass neither walked a root nor created a node.
NothingDone == dCfg["a"] = NoConfig /\ dScanned["a"] = {} /\ dCreated["a"] = {} /\ dTree = {}

\* C1: when the configuration read has an entry with both workspacePath and
\* path set, or with neither set, readConfig returns no configuration and the
\* pass scans no root and creates no node.
C1_BothOrNeitherRejected ==
    (/\ ConfigWasRead
     /\ dRead["a"].kind = "testRoots"
     /\ \E k \in 1..Len(dRead["a"].testRoots) :
          IsSet(dRead["a"].testRoots[k].workspacePath) = IsSet(dRead["a"].testRoots[k].path))
        => NothingDone

\* An entry with a missing, non-string or empty pattern, a non-string label or
\* a non-boolean groupByLabel.
BadField(r) ==
    \/ typeof(r.pattern) # "string"
    \/ r.pattern.v = <<>>
    \/ (IsSet(r.label) /\ typeof(r.label) # "string")
    \/ (IsSet(r.groupByLabel) /\ typeof(r.groupByLabel) # "boolean")

\* The configuration read has a parse error or an entry with a bad field.
ParseErrorOrBadField ==
    \/ dRead["a"].kind = "malformed"
    \/ /\ dRead["a"].kind = "testRoots"
       /\ \E k \in 1..Len(dRead["a"].testRoots) : BadField(dRead["a"].testRoots[k])

\* C2: when the configuration text has a parse error or any entry has a bad
\* pattern, label or groupByLabel, readConfig returns no configuration, the
\* pass returns at once, no root is scanned and no node is created.
C2_NoPartialAcceptance ==
    (ConfigWasRead /\ ParseErrorOrBadField) => (NothingDone /\ dPc["a"] = "done")

\* A pass over a configuration whose first entry is acceptable and whose
\* second has a bad field has returned.
C2_Witness ==
    /\ dPc["a"] = "done"
    /\ dRead["a"].kind = "testRoots"
    /\ Len(dRead["a"].testRoots) >= 2
    /\ EntryAccepted(dRead["a"].testRoots[1])
    /\ BadField(dRead["a"].testRoots[2])
    /\ dCfg["a"] = NoConfig

\* The pass ended without completing: readConfig gave nothing (file missing,
\* parse error, validation, no workspace) or the pass threw.
PassFailed == dPc["a"] = "thrown" \/ (dPc["a"] = "done" /\ dCfg["a"] = NoConfig)

\* C3: a pass that does not complete successfully leaves the tree as it was
\* when the pass started.
C3_FailedPassKeepsTree == PassFailed => dTree = dStartTree["a"]

-----------------------------------------------------------------------------
(* Claims about what a pass builds *)

Range(s) == {s[k] : k \in 1..Len(s)}

\* An entry as the specification wants it: exactly one of the two path fields
\* set, and every field of its type.
WellFormed(r) == EntryAccepted(r) /\ IsSet(r.workspacePath) # IsSet(r.path)

\* Pass p was given a configuration all of whose entries are well formed.
ValidConfigRead(p) ==
    /\ dCfg[p].ok
    /\ \A k \in 1..Len(dCfg[p].testRoots) : WellFormed(dCfg[p].testRoots[k])

\* Pass p has ended, one way or the other.
PassEnded(p) == dPc[p] \in {"done", "thrown"}

\* The directory a well-formed entry names.
RootPathOf(r) == resolveRootPath(TRUE, r).path

\* The files under a root that are to become leaves: the walk returns them,
\* the matcher accepts them and the user may execute them.
ExpectedLeaves(r) ==
    { fp \in Range(walkFiles(RootPathOf(r))) :
        matchesPattern(fp, r.pattern.v) = "true" /\ isExecutable(fp) }

\* The tree has a leaf for file fp somewhere under the group of root k (0-based).
LeafUnderRoot(k, r, fp) ==
    \E n \in dTree :
        /\ IdOf(n.path) = S_bin \o fp
        /\ \E d \in 1..(Len(n.path) - 1) : n.path[d] = RootId(k, RootPathOf(r))

\* C11: an error local to one root or one file does not abort the pass: when a
\* pass over a well-formed configuration has ended, every root whose
\* directory exists has been walked and its leaves are in the tree.
C11_LocalErrorsDoNotAbort ==
    (PassEnded("a") /\ ValidConfigRead("a")) =>
        \A k \in 1..Len(dCfg["a"].testRoots) :
            LET r == dCfg["a"].testRoots[k]
            IN  isDir(RootPathOf(r)) =>
                    /\ (k - 1) \in dScanned["a"]
                    /\ \A fp \in ExpectedLeaves(r) : LeafUnderRoot(k - 1, r, fp)

\* What the Testing view shows of a tree: ids, labels and who is under whom.
Shape(tree) == {[path |-> n.path, label |-> n.label] : n \in tree}

\* Pass p has run to its end on the configuration the pass before it, which
\* also ran to its end, was given.
SameConfigTwice(p) == dPc[p] = "done" /\ dCfg[p].ok /\ dPrev[p] = dCfg[p]

\* C12: a pass over the configuration of the pass before it (same files on
\* disk) builds a tree with the same ids, labels and structure.
C12_RediscoveryIsIdempotent ==
    SameConfigTwice("a") => Shape(dTree) = Shape(dStartTree["a"])

\* A second pass over a configuration with two roots has rebuilt groups and
\* leaves.
C12_Witness ==
    /\ SameConfigTwice("a")
    /\ Len(dCfg["a"].testRoots) = 2
    /\ Cardinality(dTree) > 4

\* Pass p ran to its end over a well-formed configuration.
CompletePass(p) == dPc[p] = "done" /\ ValidConfigRead(p)

\* C16: after a pass, a file the walk of a root returns is a leaf of that root
\* exactly when its basename matches the root's pattern and it is a regular
\* file the user may execute; a matching file without the permission gives no
\* leaf and the pass still runs to its end.
C16_LeafIffMatchAndExecutable ==
    CompletePass("a") =>
        \A k \in 1..Len(dCfg["a"].testRoots) :
            LET r == dCfg["a"].testRoots[k]
            IN  isDir(RootPathOf(r)) =>
                    \A fp \in Range(walkFiles(RootPathOf(r))) :
                        LeafUnderRoot(k - 1, r, fp)
                            <=> (/\ matchesPattern(fp, r.pattern.v) = "true"
                                 /\ fp \in ExecutableFiles)

\* A pass over /w/a with pattern t* has ended: the walk returned tn, which
\* matches and may not be executed, and t, which may; only t is a leaf.
C16_Witness ==
    /\ CompletePass("a")
    /\ \E k \in 1..Len(dCfg["a"].testRoots) :
          LET r == dCfg["a"].testRoots[k]
              tn == join(DirA, <<"t", "n">>)
          IN  /\ RootPathOf(r) = DirA
              /\ tn \in Range(walkFiles(DirA))
              /\ matchesPattern(tn, r.pattern.v) = "true"
              /\ tn \notin ExecutableFiles
              /\ ~LeafUnderRoot(k - 1, r, tn)
              /\ LeafUnderRoot(k - 1, r, join(DirA, <<"t">>))

\* The roots of pass p's configuration whose directory exists (1-based).
ResolvedRoots(p) ==
    { k \in 1..Len(dCfg[p].testRoots) : isDir(RootPathOf(dCfg[p].testRoots[k])) }

\* The id and the effective label of root k of pass p, and whether it asks to
\* be grouped by label.
RootIdOf(p, k) == RootId(k - 1, RootPathOf(dCfg[p].testRoots[k]))
LabelOf(p, k) ==
    EffectiveLabel(dCfg[p].testRoots[k], RootPathOf(dCfg[p].testRoots[k]))
Grouped(p, k) == dCfg[p].testRoots[k].groupByLabel = Bool(TRUE)

\* The tree has a node at this path.
InTree(path) == \E n \in dTree : n.path = path

\* Some node at or below `path` belongs to a root other than root k of pass p.
HoldsOtherRoot(p, k, path) ==
    \E n \in dTree : \E j \in ResolvedRoots(p) \ {k} :
        IsPrefix(path, n.path) /\ RootIdOf(p, j) \in Range(n.path)

\* C17: after a pass over a well-formed configuration, a root with
\* groupByLabel true is a sub-group of its own under the one top-level group
\* of its effective label, which it shares with the other such roots of that
\* label; a root without groupByLabel is a top-level group of its own that
\* holds no other root, whatever the labels of the others.
C17_GroupByLabelStructure ==
    CompletePass("a") =>
        \A k \in ResolvedRoots("a") :
            LET labelId == S_label \o LabelOf("a", k)
                rootId == RootIdOf("a", k)
            IN  IF Grouped("a", k)
                    THEN /\ \E n \in dTree : n.path = <<labelId>> /\ n.label = LabelOf("a", k)
                         /\ InTree(<<labelId, rootId>>)
                         /\ ~InTree(<<rootId>>)
                         /\ ~HoldsOtherRoot("a", k, <<labelId, rootId>>)
                         /\ \A j \in ResolvedRoots("a") :
                                (Grouped("a", j) /\ LabelOf("a", j) = LabelOf("a", k))
                                    => InTree(<<labelId, RootIdOf("a", j)>>)
                ELSE /\ \E n \in dTree : n.path = <<rootId>> /\ n.label = LabelOf("a", k)
                     /\ ~HoldsOtherRoot("a", k, <<rootId>>)

\* A pass has ended over two roots of different directories that both ask
\* for grouping under the same label.
C17_Witness ==
    /\ CompletePass("a")
    /\ ResolvedRoots("a") = {1, 2}
    /\ Grouped("a", 1) /\ Grouped("a", 2)
    /\ LabelOf("a", 1) = LabelOf("a", 2)
    /\ RootPathOf(dCfg["a"].testRoots[1]) # RootPathOf(dCfg["a"].testRoots[2])
    /\ InTree(<<S_label \o LabelOf("a", 1), RootIdOf("a", 1)>>)
    /\ InTree(<<S_label \o LabelOf("a", 1), RootIdOf("a", 2)>>)

\* The workspace holds no source file named after the binary fp.
NoSource(fp) == FindFiles(ParseName(Basename(fp))) = {}

\* The cache key mapToSourceUri uses for file fp of a root at rootPath.
KeyOf(rootPath, fp) ==
    CacheKey(ParseName(Basename(fp)), dirname(relative(rootPath, fp)))

\* The leaves the tree holds for file fp under the group of root k (0-based).
LeavesOf(k, r, fp) ==
    { n \in dTree : /\ IdOf(n.path) = S_bin \o fp
                    /\ RootId(k, RootPathOf(r)) \in Range(n.path) }

\* C19: for a binary with no candidate source file, the leaf is created with
\* no source location, the cache holds the negative result under (baseName,
\* relative directory), and the pass goes on to its end.
C19_NoCandidateGivesPlainLeaf ==
    (dCfg["a"].ok /\ ValidConfigRead("a")) =>
        \A k \in ResolvedRoots("a") :
            LET r == dCfg["a"].testRoots[k]
            IN  \A fp \in Range(walkFiles(RootPathOf(r))) :
                    NoSource(fp) =>
                        /\ \A n \in LeavesOf(k - 1, r, fp) :
                              /\ n.uri = NoUri
                              /\ \E e \in dSrc : /\ e.key = KeyOf(RootPathOf(r), fp)
                                                 /\ e.item = NoUri
                        /\ (/\ dPc["a"] = "done"
                             /\ matchesPattern(fp, r.pattern.v) = "true"
                             /\ fp \in ExecutableFiles) => LeavesOf(k - 1, r, fp) # {}

\* A pass over /b has ended: tz, which has no source file, is a leaf without
\* a source location, and x, which the walk returns after it, is a leaf too.
C19_Witness ==
    /\ CompletePass("a")
    /\ \E k \in ResolvedRoots("a") :
          LET r == dCfg["a"].testRoots[k]
              tz == join(DirB, <<"t", "z">>)
          IN  /\ RootPathOf(r) = DirB
              /\ NoSource(tz)
              /\ \E n \in LeavesOf(k - 1, r, tz) : n.uri = NoUri
              /\ \E e \in dSrc : e.key = KeyOf(DirB, tz) /\ e.item = NoUri
              /\ LeavesOf(k - 1, r, join(DirB, <<"t">>)) # {}

-----------------------------------------------------------------------------
(* Claims about the choice among several candidate sources *)

\* The call has returned, having had several candidates to choose from.
ChoseAmongSeveral == sDone /\ Len(sMatches) >= 2

\* The directory segments of a candidate, relative to the workspace.
SrcSegments(uri) == DirParts(dirname(relative(WorkspaceDir, uri)))

\* The number of trailing directory segments on which a and b agree.
TrailingAgree(a, b) ==
    CHOOSE n \in 0..Min(Len(a), Len(b)) :
        /\ \A i \in 1..n : a[Len(a) - i + 1] = b[Len(b) - i + 1]
        /\ (n < Min(Len(a), Len(b))) => a[Len(a) - n] # b[Len(b) - n]

\* The trailing-segment matches of a candidate with the binary's directory.
Agreement(uri) == TrailingAgree(DirParts(sRelDir), SrcSegments(uri))

\* C18: among several candidates the one chosen has the most trailing
\* directory segments in agreement with the binary's relative directory: no
\* candidate with more is passed over, whatever the bonuses of the others.
C18_SuffixMatchesDominate ==
    ChoseAmongSeveral =>
        /\ sOut.uri \in Range(sMatches)
        /\ \A d \in Range(sMatches) : Agreement(d) <= Agreement(sOut.uri)

\* The call chose a candidate with more trailing matches over one that is in
\* a tests folder, and over one that lies deeper than the cap.
C18_Witness ==
    /\ ChoseAmongSeveral
    /\ \E d \in Range(sMatches) :
          /\ Agreement(d) < Agreement(sOut.uri)
          /\ S_tests \in Range(SrcSegments(d))
          /\ S_tests \notin Range(SrcSegments(sOut.uri))
    /\ \E d \in Range(sMatches) :
          /\ Agreement(d) < Agreement(sOut.uri)
          /\ Len(SrcSegments(d)) > 20

\* The score as the specification states it.
StatedScore(uri) ==
    1000 * Agreement(uri)
        + (IF S_tests \in Range(SrcSegments(uri)) THEN 50 ELSE 0)
        + (IF Len(SrcSegments(uri)) < 20 THEN Len(SrcSegments(uri)) ELSE 20)

\* C20: the candidate returned has the highest score, and among those of
\* the highest score none has a shorter absolute path.
C20_RankedChoice ==
    ChoseAmongSeveral =>
        /\ sOut.uri \in Range(sMatches)
        /\ \A d \in Range(sMatches) \ {sOut.uri} :
              \/ StatedScore(d) < StatedScore(sOut.uri)
              \/ /\ StatedScore(d) = StatedScore(sOut.uri)
                 /\ Len(d) >= Len(sOut.uri)

\* The call chose between two candidates of equal score, findFiles having
\* listed the longer path first.
C20_Witness ==
    /\ ChoseAmongSeveral
    /\ StatedScore(sMatches[1]) = StatedScore(sOut.uri)
    /\ Len(sMatches[1]) > Len(sOut.uri)

-----------------------------------------------------------------------------
(* Claims about when a pass is started *)

\* The file is no longer what the last pass, which has ended, found.
ChangedSinceLastPass ==
    dFolder /\ PassEnded("a") /\ dRead["a"] # dFile

\* C13: once the configuration file has changed after a pass, a pass reads
\* the changed file without the user asking for it.
C13_ConfigChangeRediscovers ==
    ChangedSinceLastPass ~> (dRead["a"] = dFile)

\* C14: every cache entry a pass is handed was written by that same pass,
\* also when two passes are under way together.
C14_CacheOwnedByPass ==
    \A p \in Passes : dSrcReads[p] \subseteq {p}

-----------------------------------------------------------------------------
(* Claims about the "Create default config" command *)

\* C15: the command never writes over a file that is there: at every
\* writeFile it made, the file was missing.
C15_NeverOverwrites ==
    \A before \in iWrites : before.kind = "missing"

-----------------------------------------------------------------------------
(* Claims about the directory groups and the ids of a pass *)

\* Where the group of root k of pass p is in the tree.
RootGroupPath(p, k) ==
    IF Grouped(p, k) THEN <<S_label \o LabelOf(p, k), RootIdOf(p, k)>>
    ELSE <<RootIdOf(p, k)>>

\* The segments of the directory of file fp, relative to root k of pass p.
RelSegments(p, k, fp) ==
    DirParts(dirname(relative(RootPathOf(dCfg[p].testRoots[k]), fp)))

\* The ids of the groups of the directory prefixes of fp under root k: the
\* j-th is group:<rootId>::<the first j segments>.
PrefixIds(p, k, fp) ==
    [j \in 1..Len(RelSegments(p, k, fp)) |->
        S_group \o RootIdOf(p, k) \o <<":", ":">>
            \o JoinWith(SubSeq(RelSegments(p, k, fp), 1, j), "/")]

\* The nodes to be found below the group of root k: for each of its leaves,
\* the chain of its directory groups and, at the end of the chain, the leaf.
ExpectedBelow(p, k) ==
    UNION { { RootGroupPath(p, k) \o SubSeq(PrefixIds(p, k, fp), 1, j) :
                j \in 1..Len(PrefixIds(p, k, fp)) }
            \cup { RootGroupPath(p, k) \o PrefixIds(p, k, fp) \o <<S_bin \o fp>> } :
            fp \in ExpectedLeaves(dCfg[p].testRoots[k]) }

\* The nodes the tree holds strictly below `path`.
Below(path) == { n.path : n \in { m \in dTree : IsPrefix(path, m.path) /\ m.path # path } }

\* C21: after a pass, below the group of each root there is, for every
\* directory prefix of a leaf, one group, nested in directory order and
\* labelled with its segment, each leaf is a child of the group of its own
\* directory (of the root's group when it lies in the root itself), and
\* nothing else is there: no group or leaf of another root.
C21_DirectoryGroups ==
    CompletePass("a") =>
        \A k \in ResolvedRoots("a") :
            /\ Below(RootGroupPath("a", k)) = ExpectedBelow("a", k)
            /\ \A fp \in ExpectedLeaves(dCfg["a"].testRoots[k]) :
                  \A j \in 1..Len(PrefixIds("a", k, fp)) :
                      /\ \E n \in dTree :
                            /\ n.path = RootGroupPath("a", k)
                                           \o SubSeq(PrefixIds("a", k, fp), 1, j)
                            /\ n.label = RelSegments("a", k, fp)[j]
                      /\ Cardinality({ n \in dTree :
                                         IdOf(n.path) = PrefixIds("a", k, fp)[j] }) = 1

\* A pass over two roots that are both /w/a and share a label has ended:
\* each has its own groups s and s/r, with t in s and tr in s/r.
C21_Witness ==
    /\ CompletePass("a")
    /\ ResolvedRoots("a") = {1, 2}
    /\ Grouped("a", 1) /\ Grouped("a", 2)
    /\ LabelOf("a", 1) = LabelOf("a", 2)
    /\ \A k \in {1, 2} :
          /\ RootPathOf(dCfg["a"].testRoots[k]) = DirA
          /\ Len(PrefixIds("a", k, join(DirASR, <<"t", "r">>))) = 2
          /\ RootGroupPath("a", k) \o PrefixIds("a", k, join(DirASR, <<"t", "r">>))
                \o <<S_bin \o join(DirASR, <<"t", "r">>)>> \in Below(RootGroupPath("a", k))
          /\ RootGroupPath("a", k) \o PrefixIds("a", k, join(DirAS, <<"t">>))
                \o <<S_bin \o join(DirAS, <<"t">>)>> \in Below(RootGroupPath("a", k))

\* The node above the node at `path`.
ParentOf(path) == SubSeq(path, 1, Len(path) - 1)

\* Two different nodes of the tree have the same id.
SameId(n, m) == n # m /\ IdOf(n.path) = IdOf(m.path)

\* C30 as stated: the ids of all the nodes of the tree are pairwise distinct.
C30_AllIdsDistinct ==
    \A n, m \in dTree : ~SameId(n, m)

\* C30, amended: after a pass, different roots have different ids and each
\* has its group in the tree, and two nodes have the same id only when they
\* are leaves (of the same binary) under different parents: the ids of the
\* groups are distinct in the whole tree, those of the leaves among the
\* children of each group.
C30_DistinctGroupsAndSiblings ==
    CompletePass("a") =>
        /\ \A j, k \in ResolvedRoots("a") :
              j # k => RootIdOf("a", j) # RootIdOf("a", k)
        /\ \A k \in ResolvedRoots("a") : InTree(RootGroupPath("a", k))
        /\ \A n, m \in dTree :
              SameId(n, m) => /\ startsWith(IdOf(n.path), S_bin)
                              /\ ParentOf(n.path) # ParentOf(m.path)

\* A pass over two roots of the same directory has ended: each has its
\* group, and the leaf of /w/a/t is there twice, once under each.
C30_Witness ==
    /\ CompletePass("a")
    /\ ResolvedRoots("a") = {1, 2}
    /\ RootPathOf(dCfg["a"].testRoots[1]) = RootPathOf(dCfg["a"].testRoots[2])
    /\ \E n, m \in dTree :
          /\ SameId(n, m)
          /\ IdOf(n.path) = S_bin \o join(DirA, <<"t">>)
          /\ IsPrefix(RootGroupPath("a", 1), n.path)
          /\ IsPrefix(RootGroupPath("a", 2), m.path)

-----------------------------------------------------------------------------
(* Claims about root resolution *)

\* What the rules of resolution give for the string p with a workspace folder
\* open: expanded under the home directory, or normalized, or joined with the
\* workspace root and normalized.
StatedResolution(p) ==
    IF startsWith(p, <<"~", "/">>) THEN normalize(join(Home, SubSeq(p, 3, Len(p))))
    ELSE IF isAbsolute(p) THEN normalize(p)
    ELSE normalize(join(WorkspaceDir, p))

\* C22: resolveRootPath gives, for an entry holding the string p in either of
\* its two fields, the path the rules of resolution give for p, an absolute
\* path; it gives null only when no workspace folder is open.
C22_ResolutionByPathAlone ==
    fDone =>
        IF fArgs.folder
            THEN /\ fOut = Resolved(StatedResolution(fArgs.p))
                 /\ isAbsolute(fOut.path)
        ELSE fOut = Null

-----------------------------------------------------------------------------
(* Claims about the message of a nonzero exit *)

RECURSIVE Produced(_)
\* What a stream produced: its chunks one after the other.
Produced(chunks) ==
    IF chunks = <<>> THEN <<>> ELSE Head(chunks) \o Produced(Tail(chunks))

\* The section holds exactly the last min(TailChars, length) characters the
\* stream produced.
TailOfStream(section, chunks) ==
    LET out == Produced(chunks)
    IN  /\ Len(section.text) <= TailChars
        /\ section.text = tail(out, Min(TailChars, Len(out)))

\* C23: the message of a nonzero exit names the exit code and holds, for
\* stderr and for stdout, the last min(4000, length) characters of the
\* stream: at most 4000 of them, and a suffix of what the stream produced.
C23_TailIsSuffixOfStream ==
    fDone =>
        /\ fOut.code = fArgs.code
        /\ TailOfStream(fOut.stderr, fArgs.stderr)
        /\ TailOfStream(fOut.stdout, fArgs.stdout)

-----------------------------------------------------------------------------
(* Claims about the run request as a whole *)

\* C25: every process.kill call of a cancellation names the process group of
\* the execution in flight when cancellation was requested; the groups of
\* executions that had finished before get no signal.
C25_SignalsOnlyInFlight ==
    \A i \in 1..Len(rSignals) :
        rCancelAt # 0 /\ rSignals[i].target = -PidOf(rCancelAt)

\* A Leaf: the item discovery made for an executable, its id `bin:<path>`.
IsLeafItem(test) == test.path # <<>> /\ startsWith(IdOf(test.path), S_bin)

\* The positions in qCalls of the calls named `call`.
CallsOf(call) == { k \in 1..Len(qCalls) : qCalls[k].call = call }

\* C26: passed, failed and errored are reported for Leaves only, never for a
\* Group, be it a root Group under which discovery found nothing.
C26_OnlyLeavesGetResults ==
    \A k \in 1..Len(qCalls) :
        qCalls[k].call \in ResultCalls => IsLeafItem(qCalls[k].item)

\* C27: "Missing binary path for test item." is never reported for a Leaf,
\* whatever discovery does while the request is under way.
C27_NoMissingBinaryForLeaf ==
    \A k \in CallsOf("errored") :
        qCalls[k].msg = MissingBinaryPath => ~IsLeafItem(qCalls[k].item)

\* C28: run.end is called once, as the last call, when the handler returns
\* and not before; after cancellation was requested nothing is enqueued or
\* started, and the only result reported is that of the item then under way.
C28_EndsOnceNothingAfterCancel ==
    /\ Cardinality(CallsOf("end")) = (IF qPc = "ended" THEN 1 ELSE 0)
    /\ qPc = "ended" => qCalls[Len(qCalls)].call = "end"
    /\ qToken =>
          \A k \in 1..Len(qCalls) :
              k > qCancelAt =>
                  /\ qCalls[k].call \notin {"enqueued", "started"}
                  /\ qCalls[k].call \in ResultCalls =>
                        k = qCancelAt + 1 /\ qCalls[k].item = qCalls[qCancelAt].item

\* C28 witness: a request was cancelled during its first execution, with
\* more items to go, and has ended: one result, then run.end.
C28_Witness ==
    /\ qPc = "ended" /\ qToken
    /\ qIdx = 2 /\ Len(qLeaves) > 2
    /\ Cardinality(CallsOf("started")) = 1
    /\ qCalls[Len(qCalls) - 1].call \in ResultCalls

\* C29: no Leaf is started twice in one request, whatever the selection.
C29_LeafStartedAtMostOnce ==
    \A i, j \in CallsOf("started") :
        qCalls[i].item = qCalls[j].item => i = j

-----------------------------------------------------------------------------
(* Claims about passes under way together *)

\* The ids binaryByTestId would hold had pass p alone filled it.
LeafIdsOf(p) ==
    { path[Len(path)] : path \in { q \in dCreated[p] : startsWith(q[Len(q)], S_bin) } }

\* Both calls of discover() have returned, the one of the command last started
\* while the startup pass was under way or after it.
BothEnded == PassEnded("a") /\ PassEnded("b")

\* C24: once the startup pass and a rediscover pass started after it have both
\* ended, the tree and binaryByTestId hold exactly what the rediscover pass
\* created from the configuration it read: all of its nodes, as it made them,
\* and none of the startup pass.
C24_LaterPassOwnsTree ==
    BothEnded =>
        /\ \A n \in dTree : n.by = "b"
        /\ { n.path : n \in dTree } = dCreated["b"]
        /\ { b.id : b \in dBin } = LeafIdsOf("b")

=============================================================================
